---- MODULE Spec2Model ----
(***************************************************************************)
(* Itinerary consistency engine of jian-tu (src/components/ResultView.tsx): *)
(* the time parser, the per-day schedule validator and the itinerary store *)
(* that re-validates the affected days after every edit.                   *)
(*                                                                         *)
(* A text is a sequence of characters, each character a one-letter string; *)
(* the full-width colon U+FF1A is written "FW".                            *)
(***************************************************************************)
EXTENDS Integers, Sequences, FiniteSets, TLC

VARIABLES
    itineraryItems,    \* useState<RouteCoordinate[]>: the entry collection
    dayWarnings,       \* useState<Record<string,string[]>>: day -> warnings
    draggedItemIndex,  \* useState<number|null>
    editingTimeIndex,  \* useState<number|null>
    tempTime,          \* useState<string>
    recTargetIndex,    \* useState<number|null>
    seeded,            \* the seed effect has run
    nOps,              \* number of store operations applied since Seed
    lastOp,            \* the last store operation and the days it named
    failed,            \* a handler threw (a TypeError on an undefined entry)
    pText,             \* parser run: the text typed so far
    pResult,           \* parser run: parseTimeMinutes(pText)
    vItems,            \* validator run: one day's entries
    vOut,              \* validator run: processDaySchedule(vItems)
    vOut2,             \* validator run: processDaySchedule(vOut.sortedItems)
    vPhase,            \* validator run: "input", "once", "twice"
    uItems,            \* re-validation run: the collection given
    uDays,             \* re-validation run: the list of affected days given
    uWarn,             \* re-validation run: the warnings before / after
    uOut,              \* re-validation run: the collection returned
    uPhase,            \* re-validation run: "input", "done"
    eCoordinates,      \* expense run: the entries (name, cost, type, day)
    eBudgetEst,        \* expense run: data.metadata.total_budget_est
    eOut,              \* expense run: the expense breakdown, NoBreakdown before
    mCoordinates,      \* map run: the entries (id, lat, lng) given to the map
    mOut,              \* map run: validCoords, NoProjection before
    views,             \* the derived views as of the last render
    rBody,             \* planning endpoint: req.body of the last request
    rRes,              \* planning endpoint: the response, NoResponse before
    rLlm,              \* planning endpoint: the LLM service was called for it
    rHits,             \* planning endpoint: requests counted in the limiter's window
    aView,             \* App: viewState
    aForm,             \* InputForm: formData, NoForm while the form is unmounted
    aSubmitted,        \* App: the data of the last handleFormSubmit, NoForm before
    aResult,           \* App: result is set
    aError,            \* App: errorMsg
    xText,             \* extraction run: the text the LLM service returned
    xResult,           \* extraction run: the ParsedResponse the client holds
    xPhase,            \* extraction run: "input", "parsed", "seeded"
    kCoordinates,      \* marker run: the coordinates prop of InteractiveMap
    kMounted,          \* marker run: InteractiveMap is mounted
    kMap,              \* marker run: mapInstanceRef.current is set
    kViewport,         \* marker run: the map's bounds
    kMarkers,          \* marker run: the layers of markerLayer
    kListener          \* marker run: validCoords of the registered listeners

storeVars == <<itineraryItems, dayWarnings, draggedItemIndex, editingTimeIndex,
               tempTime, recTargetIndex, seeded, nOps, lastOp, failed>>
parseVars == <<pText, pResult>>
validateVars == <<vItems, vOut, vOut2, vPhase>>
updateVars == <<uItems, uDays, uWarn, uOut, uPhase>>
expenseVars == <<eCoordinates, eBudgetEst, eOut>>
mapVars == <<mCoordinates, mOut>>
planVars == <<rBody, rRes, rLlm, rHits>>
appVars == <<aView, aForm, aSubmitted, aResult, aError>>
extractVars == <<xText, xResult, xPhase>>
markVars == <<kCoordinates, kMounted, kMap, kViewport, kMarkers, kListener>>
laterRuns == <<appVars, extractVars, markVars>>
vars == <<storeVars, parseVars, validateVars, updateVars, expenseVars, mapVars,
          views, planVars, laterRuns>>

(***************************************************************************)
(* Bounds                                                                  *)
(***************************************************************************)
MaxPieces == 6      \* pieces a parser input text is assembled from
MaxDayLen == 3      \* entries of one day handed to the validator
MaxSeed == 4        \* raw entries of a planning result
MaxItems == 4       \* entries the collection may grow to by Insert
MaxOps == 2         \* store operations after Seed
MaxUpd == 3         \* entries of a collection handed to a re-validation pass
MaxAffected == 2    \* affected days handed to a re-validation pass
MaxPlan == 3        \* raw entries of a planning result in a seed run
MaxExp == 2         \* entries handed to the expense aggregator
MaxMap == 2         \* entries handed to the map projection
MaxText == 5        \* tokens of a response text
MaxMark == 2        \* entries of the collection shown on the map

(***************************************************************************)
(* Characters and small sequence helpers                                   *)
(***************************************************************************)
Digits == {"0", "1", "2", "3", "4", "5", "6", "7", "8", "9"}

DigitVal == [c \in Digits |->
    CASE c = "0" -> 0 [] c = "1" -> 1 [] c = "2" -> 2 [] c = "3" -> 3
      [] c = "4" -> 4 [] c = "5" -> 5 [] c = "6" -> 6 [] c = "7" -> 7
      [] c = "8" -> 8 [] c = "9" -> 9]

IsDigit(c) == c \in Digits

\* JS null (parseTimeMinutes) and null of a number|null state cell
null == [start |-> -1, end |-> -1]
NoIndex == 0   \* sequences are 1-based: JS index k is index k + 1 here

RECURSIVE Flatten(_)
Flatten(ss) == IF ss = <<>> THEN <<>> ELSE Head(ss) \o Flatten(Tail(ss))

(***************************************************************************)
(* parseTimeMinutes                                                        *)
(***************************************************************************)
\* String.prototype.replace(string, string): only the FIRST occurrence
RECURSIVE replaceFirst(_, _, _)
replaceFirst(s, from, to) ==
    IF s = <<>> THEN <<>>
    ELSE IF Head(s) = from THEN <<to>> \o Tail(s)
    ELSE <<Head(s)>> \o replaceFirst(Tail(s), from, to)

RECURSIVE trimStart(_)
trimStart(s) == IF s # <<>> /\ Head(s) = " " THEN trimStart(Tail(s)) ELSE s

RECURSIVE trimEnd(_)
trimEnd(s) ==
    IF s # <<>> /\ s[Len(s)] = " " THEN trimEnd(SubSeq(s, 1, Len(s) - 1)) ELSE s

trim(s) == trimEnd(trimStart(s))

\* length of the match of /(\d{1,2}):(\d{2})/ that starts exactly at p, 0 if none
matchLenAt(s, p) ==
    IF /\ p + 4 <= Len(s)
       /\ IsDigit(s[p]) /\ IsDigit(s[p + 1]) /\ s[p + 2] = ":"
       /\ IsDigit(s[p + 3]) /\ IsDigit(s[p + 4])
    THEN 5
    ELSE IF /\ p + 3 <= Len(s)
            /\ IsDigit(s[p]) /\ s[p + 1] = ":"
            /\ IsDigit(s[p + 2]) /\ IsDigit(s[p + 3])
    THEN 4
    ELSE 0

\* String.prototype.match with the g flag: leftmost, non-overlapping matches
RECURSIVE matchAll(_, _)
matchAll(s, p) ==
    IF p > Len(s) THEN <<>>
    ELSE LET n == matchLenAt(s, p) IN
         IF n > 0 THEN <<SubSeq(s, p, p + n - 1)>> \o matchAll(s, p + n)
         ELSE matchAll(s, p + 1)

\* Number(digits)
RECURSIVE Number(_)
Number(ds) ==
    IF ds = <<>> THEN 0
    ELSE 10 * Number(SubSeq(ds, 1, Len(ds) - 1)) + DigitVal[ds[Len(ds)]]

\* t.split(':').map(Number), h * 60 + m; t is a match, so it has one colon
toMin(t) ==
    LET c == CHOOSE i \in 1..Len(t) : t[i] = ":"
        h == Number(SubSeq(t, 1, c - 1))
        m == Number(SubSeq(t, c + 1, Len(t)))
    IN h * 60 + m

parseTimeMinutes(timeStr) ==
    IF timeStr = <<>> THEN null
    ELSE LET clean == trim(replaceFirst(timeStr, "FW", ":"))
             matches == matchAll(clean, 1)
         IN IF Len(matches) = 0 THEN null
            ELSE LET start == toMin(matches[1])
                 IN [start |-> start,
                     end |-> IF Len(matches) > 1 THEN toMin(matches[2])
                             ELSE start + 60]

(***************************************************************************)
(* Parser run: a text is typed piece by piece and parsed                   *)
(***************************************************************************)
Pieces == { <<"9">>, <<"3", "0">>, <<":">>, <<"FW">>, <<" ">>,
            <<"1", "0", ":", "1", "5">> }

ParseInit == pText = <<>> /\ pResult = null

ParseType ==
    /\ Len(pText) < MaxPieces
    /\ \E piece \in Pieces : pText' = Append(pText, piece)
    /\ pResult' = parseTimeMinutes(Flatten(pText'))

(***************************************************************************)
(* Entries (RouteCoordinate) and time texts                                *)
(*                                                                         *)
(* id stands for the identity of the JS object (indexOf and === compare    *)
(* references); a spread copy {...item, x} is the same entry with x set.   *)
(* day "" is an absent (falsy) day label.                                  *)
(***************************************************************************)
NoDay == ""
Days == {"Day 1", "Day 2", "Day 3"}

T0900_1000 == <<"0", "9", ":", "0", "0", "-", "1", "0", ":", "0", "0">>
T0930_1100 == <<"0", "9", ":", "3", "0", "-", "1", "1", ":", "0", "0">>
T1000_1100 == <<"1", "0", ":", "0", "0", "-", "1", "1", ":", "0", "0">>
T0900 == <<"0", "9", ":", "0", "0">>
T1100 == <<"1", "1", ":", "0", "0">>
T1130 == <<"1", "1", ":", "3", "0">>
T1400 == <<"1", "4", ":", "0", "0">>
T1100_1200 == <<"1", "1", ":", "0", "0", "-", "1", "2", ":", "0", "0">>
T2300_0100 == <<"2", "3", ":", "0", "0", "-", "0", "1", ":", "0", "0">>
\* the two-character placeholder text of handleAddLocation (no digit, no colon)
Placeholder == <<"w", "d">>

Entry(id, day, time, name, type) ==
    [id |-> id, day |-> day, time |-> time, name |-> name, desc |-> "desc",
     cost |-> "120", rating |-> "4.5", type |-> type]

\* i.day || 'Day 1'
DayOf(i) == IF i.day = NoDay THEN "Day 1" ELSE i.day

\* items.filter(i => (i.day || 'Day 1') === day)
ItemsOfDay(items, day) == SelectSeq(items, LAMBDA i : DayOf(i) = day)

\* a filter that forgets the default day: i.day !== day
ItemsNotOfDay_NoDefault(items, day) == SelectSeq(items, LAMBDA i : i.day # day)

\* items.filter(i => (i.day || 'Day 1') !== day)
ItemsNotOfDay(items, day) == SelectSeq(items, LAMBDA i : DayOf(i) # day)

(***************************************************************************)
(* processDaySchedule                                                      *)
(***************************************************************************)
\* parseTimeMinutes(item.time || ''), tabulated over the texts entries carry
KnownTimes == {T0900_1000, T0930_1100, T1000_1100, T0900, T2300_0100, Placeholder,
               T1100, T1130, T1400, T1100_1200}
ParsedKnown == [t \in KnownTimes |-> parseTimeMinutes(t)]
ParsedOf(item) == ParsedKnown[item.time]

IsTimed(item) == ParsedOf(item) # null

\* Array.prototype.sort with (a, b) => a.time.start - b.time.start is a
\* stable sort (ES2019): x goes behind every element that does not start later
\* a comparator that sorts by start descending
compareStart_Descending(a, b) == ParsedOf(b).start - ParsedOf(a).start

\* the comparator (a, b) => a.time.start - b.time.start
compareStart(a, b) == ParsedOf(a).start - ParsedOf(b).start

RECURSIVE InsertByStart(_, _)
InsertByStart(x, sorted) ==
    IF sorted = <<>> THEN <<x>>
    ELSE IF compareStart(Head(sorted), x) <= 0
         THEN <<Head(sorted)>> \o InsertByStart(x, Tail(sorted))
         ELSE <<x>> \o sorted

RECURSIVE SortByStart(_)
SortByStart(s) ==
    IF s = <<>> THEN <<>>
    ELSE InsertByStart(s[Len(s)], SortByStart(SubSeq(s, 1, Len(s) - 1)))

\* the warning string: the two names and the two raw time texts it quotes
Warning(current, next) ==
    [a |-> current.name, at |-> current.time, b |-> next.name, bt |-> next.time]

\* an overlap test that also reports entries that only touch
Overlaps_Touching(current, next) == ParsedOf(current).end >= ParsedOf(next).start

\* current.time.end > next.time.start
Overlaps(current, next) == ParsedOf(current).end > ParsedOf(next).start

\* a loop that compares only the first two timed entries
WarningsFrom_FirstPairOnly(timed, i) ==
    IF i # 1 \/ Len(timed) < 2 \/ ~Overlaps(timed[1], timed[2]) THEN <<>>
    ELSE <<Warning(timed[1], timed[2])>>

\* the loop over i = 0 .. timedItems.length - 2
RECURSIVE WarningsFrom(_, _)
WarningsFrom(timed, i) ==
    IF i >= Len(timed) THEN <<>>
    ELSE (IF Overlaps(timed[i], timed[i + 1])
          THEN <<Warning(timed[i], timed[i + 1])>> ELSE <<>>)
         \o WarningsFrom(timed, i + 1)

processDaySchedule(items) ==
    LET timedItems == SortByStart(SelectSeq(items, IsTimed))
        untimedItems == SelectSeq(items, LAMBDA i : ~IsTimed(i))
    IN [sortedItems |-> timedItems \o untimedItems,
        warnings |-> WarningsFrom(timedItems, 1)]

(***************************************************************************)
(* Validator run: one day's entries are validated, then validated again    *)
(***************************************************************************)
VNames == <<"A", "B", "C", "D", "E", "F">>
VTimes == {T0900_1000, T0930_1100, T1000_1100, T0900, T2300_0100, Placeholder}
NoResult == [sortedItems |-> <<>>, warnings |-> <<>>]

VInputs ==
    UNION { { [k \in 1..n |-> Entry(k, "Day 1", f[k], VNames[k], "spot")] :
              f \in [1..n -> VTimes] } : n \in 0..MaxDayLen }

ValidateInit ==
    /\ vItems \in VInputs
    /\ vOut = NoResult /\ vOut2 = NoResult /\ vPhase = "input"

Validate ==
    /\ vPhase = "input"
    /\ vOut' = processDaySchedule(vItems)
    /\ vPhase' = "once"
    /\ UNCHANGED <<vItems, vOut2>>

ValidateAgain ==
    /\ vPhase = "once"
    /\ vOut2' = processDaySchedule(vOut.sortedItems)
    /\ vPhase' = "twice"
    /\ UNCHANGED <<vItems, vOut>>

(***************************************************************************)
(* DayWarningSet: a function whose domain is the set of keys               *)
(***************************************************************************)
EmptyWarnings == [d \in {} |-> <<>>]

\* updatedWarnings[day] = warnings
SetKey(w, day, warnings) ==
    [d \in (DOMAIN w) \cup {day} |-> IF d = day THEN warnings ELSE w[d]]

\* delete updatedWarnings[day]
DeleteKey(w, day) == [d \in (DOMAIN w) \ {day} |-> w[d]]

(***************************************************************************)
(* updateItineraryAndWarnings: the values handed to setItineraryItems and  *)
(* setDayWarnings                                                          *)
(***************************************************************************)
\* a pass that starts from an empty warning map instead of a copy of dayWarnings
RevalidateDay_FreshWarnings(st, day) ==
    LET r == processDaySchedule(ItemsOfDay(st.items, day))
    IN [items |-> ItemsNotOfDay(st.items, day) \o r.sortedItems,
        warnings |-> IF Len(r.warnings) > 0
                     THEN SetKey(EmptyWarnings, day, r.warnings)
                     ELSE EmptyWarnings]

\* a pass that stores the empty list for a clean day instead of deleting the key
RevalidateDay_KeepsEmptyList(st, day) ==
    LET r == processDaySchedule(ItemsOfDay(st.items, day))
    IN [items |-> ItemsNotOfDay(st.items, day) \o r.sortedItems,
        warnings |-> SetKey(st.warnings, day, r.warnings)]

RevalidateDay(st, day) ==
    LET r == processDaySchedule(ItemsOfDay(st.items, day))
    IN [items |-> ItemsNotOfDay(st.items, day) \o r.sortedItems,
        warnings |-> IF Len(r.warnings) > 0
                     THEN SetKey(st.warnings, day, r.warnings)
                     ELSE DeleteKey(st.warnings, day)]

RECURSIVE RevalidateDays(_, _)
RevalidateDays(st, affectedDays) ==
    IF affectedDays = <<>> THEN st
    ELSE RevalidateDays(RevalidateDay(st, Head(affectedDays)), Tail(affectedDays))

updateItineraryAndWarnings(newItems, affectedDays, warnings) ==
    RevalidateDays([items |-> newItems, warnings |-> warnings], affectedDays)

(***************************************************************************)
(* The seed effect                                                         *)
(***************************************************************************)
\* Array.from(new Set(items.map(i => i.day || 'Day 1'))): first occurrences
RECURSIVE DistinctDays(_, _)
DistinctDays(items, seen) ==
    IF items = <<>> THEN <<>>
    ELSE IF DayOf(Head(items)) \in seen THEN DistinctDays(Tail(items), seen)
    ELSE <<DayOf(Head(items))>>
         \o DistinctDays(Tail(items), seen \cup {DayOf(Head(items))})

\* a seed that pushes each day's entries as they came, without the sort
RECURSIVE SeedDays_Unsorted(_, _, _)
SeedDays_Unsorted(items, days, acc) ==
    IF days = <<>> THEN acc
    ELSE LET r == processDaySchedule(ItemsOfDay(items, Head(days)))
         IN SeedDays_Unsorted(items, Tail(days),
                [items |-> acc.items \o ItemsOfDay(items, Head(days)),
                 warnings |-> IF Len(r.warnings) > 0
                              THEN SetKey(acc.warnings, Head(days), r.warnings)
                              ELSE acc.warnings])

RECURSIVE SeedDays(_, _, _)
SeedDays(items, days, acc) ==
    IF days = <<>> THEN acc
    ELSE LET r == processDaySchedule(ItemsOfDay(items, Head(days)))
         IN SeedDays(items, Tail(days),
                [items |-> acc.items \o r.sortedItems,
                 warnings |-> IF Len(r.warnings) > 0
                              THEN SetKey(acc.warnings, Head(days), r.warnings)
                              ELSE acc.warnings])

SeedEffect(routeCoordinates) ==
    SeedDays(routeCoordinates, DistinctDays(routeCoordinates, {}),
             [items |-> <<>>, warnings |-> EmptyWarnings])

(***************************************************************************)
(* Handlers, as functions of the state they read                           *)
(***************************************************************************)
RemoveAt(s, i) == SubSeq(s, 1, i - 1) \o SubSeq(s, i + 1, Len(s))

\* splice(at, 0, x) with the 0-based position at: x becomes element at + 1
InsertAt(s, at, x) == SubSeq(s, 1, at) \o <<x>> \o SubSeq(s, at + 1, Len(s))

\* Array.prototype.indexOf (reference equality), 1-based; 0 stands for -1
IndexOf(s, item) ==
    IF \E k \in 1..Len(s) : s[k].id = item.id
    THEN CHOOSE k \in 1..Len(s) :
             s[k].id = item.id /\ \A j \in 1..(k - 1) : s[j].id # item.id
    ELSE 0

\* the affectedDays handleDrop hands to updateItineraryAndWarnings: one pass each
DropAffectedDays(oldDay, targetDay) == <<oldDay, targetDay>>

\* a drop that re-validates the destination day only
handleDrop_TargetDayOnly(items, warnings, dragged, targetItem, targetDay, insertAfter) ==
    LET removed == items[dragged]
        newItems == RemoveAt(items, dragged)
        updatedItem == [removed EXCEPT !.day = targetDay]
        targetIndex == IndexOf(newItems, targetItem)
        placed == IF targetIndex # 0
                  THEN InsertAt(newItems,
                                IF insertAfter THEN targetIndex ELSE targetIndex - 1,
                                updatedItem)
                  ELSE newItems
    IN updateItineraryAndWarnings(placed, <<targetDay>>, warnings)

handleDrop(items, warnings, dragged, targetItem, targetDay, insertAfter) ==
    LET removed == items[dragged]
        newItems == RemoveAt(items, dragged)
        oldDay == DayOf(removed)
        updatedItem == [removed EXCEPT !.day = targetDay]
        targetIndex == IndexOf(newItems, targetItem)
        placed == IF targetIndex # 0
                  THEN InsertAt(newItems,
                                IF insertAfter THEN targetIndex ELSE targetIndex - 1,
                                updatedItem)
                  ELSE newItems
    IN updateItineraryAndWarnings(placed, DropAffectedDays(oldDay, targetDay),
                                  warnings)

handleAddLocation(items, warnings, id, locationName, day) ==
    LET newItem == [id |-> id, day |-> day, time |-> Placeholder,
                    name |-> locationName, desc |-> "added", cost |-> "tbd",
                    rating |-> "New", type |-> "spot"]
    IN updateItineraryAndWarnings(Append(items, newItem), <<day>>, warnings)

\* a delete that removes the entry without re-validating its day
handleDeleteItem_KeepsWarnings(items, warnings, index) ==
    [items |-> RemoveAt(items, index), warnings |-> warnings]

handleDeleteItem(items, warnings, index) ==
    updateItineraryAndWarnings(RemoveAt(items, index),
                               <<DayOf(items[index])>>, warnings)

\* a save that stores the new time without re-validating the day
handleSaveTime_NoRevalidation(items, warnings, index, time) ==
    [items |-> [items EXCEPT ![index] = [@ EXCEPT !.time = time]],
     warnings |-> warnings]

\* a save that re-validates 'Day 1' whatever the day of the entry
handleSaveTime_RevalidatesDay1(items, warnings, index, time) ==
    LET newItems == [items EXCEPT ![index] = [@ EXCEPT !.time = time]]
    IN updateItineraryAndWarnings(newItems, <<"Day 1">>, warnings)

\* the branch editingTimeIndex !== null && tempTime
handleSaveTime(items, warnings, index, time) ==
    LET affectedDay == DayOf(items[index])
        newItems == [items EXCEPT ![index] = [@ EXCEPT !.time = time]]
    IN updateItineraryAndWarnings(newItems, <<affectedDay>>, warnings)

\* a replacement that re-validates the entry's day like the other handlers
handleSelectRecommendation_Revalidates(items, index, rec) ==
    updateItineraryAndWarnings(
        [items EXCEPT ![index] = [@ EXCEPT !.name = rec.name, !.desc = rec.desc,
                                           !.cost = rec.cost, !.rating = rec.rating]],
        <<DayOf(items[index])>>, EmptyWarnings).items

handleSelectRecommendation(items, index, rec) ==
    [items EXCEPT ![index] = [@ EXCEPT !.name = rec.name, !.desc = rec.desc,
                                       !.cost = rec.cost, !.rating = rec.rating]]

\* Object.keys(daysMap): the days that have a group
dayKeys(items) == {DayOf(items[k]) : k \in 1..Len(items)}

\* daysMap: each day's entries in collection order
daysMap(items) == [d \in dayKeys(items) |-> ItemsOfDay(items, d)]

(***************************************************************************)
(* totalBudget and expenseBreakdown                                        *)
(*                                                                         *)
(* Characters outside ASCII are written by a code: "Y" the yuan sign,      *)
(* "MIAN" "FEI" the two characters of the word for free, "w" "d" the two   *)
(* of the word for undetermined, "JIAO" "TONG" (traffic), "QIAN" "WANG"    *)
(* (go to), "JIE" "JI" (pickup), "SONG" "JI" (drop-off).                   *)
(***************************************************************************)
NoText == <<>>      \* an absent or empty text: both are falsy
NoType == ""        \* an absent type

\* String.prototype.includes
Includes(s, sub) ==
    \E p \in 1..(Len(s) - Len(sub) + 1) : SubSeq(s, p, p + Len(sub) - 1) = sub

\* str.match(/(\d+)/)[0]: the leftmost digit run, as long as it goes; <<>> for no match
RECURSIVE DigitPrefix(_)
DigitPrefix(s) ==
    IF s # <<>> /\ IsDigit(Head(s)) THEN <<Head(s)>> \o DigitPrefix(Tail(s)) ELSE <<>>

RECURSIVE FirstDigitRun(_)
FirstDigitRun(s) ==
    IF s = <<>> THEN <<>>
    ELSE IF IsDigit(Head(s)) THEN DigitPrefix(s)
    ELSE FirstDigitRun(Tail(s))

\* str.replace(/,/g, ''): every comma goes
StripCommas(s) == SelectSeq(s, LAMBDA c : c # ",")

totalBudget(total_budget_est) ==
    IF total_budget_est = NoText THEN 0
    ELSE LET match == FirstDigitRun(StripCommas(total_budget_est))
         IN IF match # <<>> THEN Number(match) ELSE 0

Free == <<"MIAN", "FEI">>
Undetermined == <<"w", "d">>
TransitKeywords == { <<"JIAO", "TONG">>, <<"QIAN", "WANG">>,
                     <<"JIE", "JI">>, <<"SONG", "JI">> }

isTransport(name) == \E kw \in TransitKeywords : Includes(name, kw)

NoBreakdown == [hotel |-> -1, food |-> -1, spot |-> -1, transport |-> -1,
                reserve |-> -1, trackedTotal |-> -1, items |-> <<>>]

\* a loop body without the test for the free / undetermined vocabulary
ExpenseStep_NoVocabulary(acc, item) ==
    IF item.cost = NoText THEN acc
    ELSE LET match == FirstDigitRun(item.cost)
         IN IF match = <<>> THEN acc
            ELSE LET val == Number(match)
                     line == [name |-> item.name, cost |-> val,
                              type |-> IF isTransport(item.name) THEN "transport"
                                       ELSE IF item.type = NoType THEN "spot"
                                       ELSE item.type,
                              day |-> DayOf(item)]
                     withLine == [acc EXCEPT !.items = Append(@, line)]
                 IN IF item.type = "hotel"
                    THEN [withLine EXCEPT !.hotel = @ + val]
                    ELSE IF item.type = "food"
                    THEN [withLine EXCEPT !.food = @ + val]
                    ELSE IF isTransport(item.name)
                    THEN [withLine EXCEPT !.transport = @ + val]
                    ELSE [withLine EXCEPT !.spot = @ + val]

\* the body of coordinates.forEach
ExpenseStep(acc, item) ==
    IF item.cost = NoText THEN acc
    ELSE IF Includes(item.cost, Free) \/ Includes(item.cost, Undetermined) THEN acc
    ELSE LET match == FirstDigitRun(item.cost)
         IN IF match = <<>> THEN acc
            ELSE LET val == Number(match)
                     line == [name |-> item.name, cost |-> val,
                              type |-> IF isTransport(item.name) THEN "transport"
                                       ELSE IF item.type = NoType THEN "spot"
                                       ELSE item.type,
                              day |-> DayOf(item)]
                     withLine == [acc EXCEPT !.items = Append(@, line)]
                 IN IF item.type = "hotel"
                    THEN [withLine EXCEPT !.hotel = @ + val]
                    ELSE IF item.type = "food"
                    THEN [withLine EXCEPT !.food = @ + val]
                    ELSE IF isTransport(item.name)
                    THEN [withLine EXCEPT !.transport = @ + val]
                    ELSE [withLine EXCEPT !.spot = @ + val]

RECURSIVE ExpenseLoop(_, _)
ExpenseLoop(acc, coordinates) ==
    IF coordinates = <<>> THEN acc
    ELSE ExpenseLoop(ExpenseStep(acc, Head(coordinates)), Tail(coordinates))

\* a breakdown whose reserve is the plain difference
expenseBreakdown_NoFloor(coordinates, budget) ==
    LET totals == ExpenseLoop([hotel |-> 0, food |-> 0, spot |-> 0, transport |-> 0,
                               items |-> <<>>], coordinates)
        trackedTotal == totals.hotel + totals.food + totals.spot + totals.transport
    IN [hotel |-> totals.hotel, food |-> totals.food, spot |-> totals.spot,
        transport |-> totals.transport, reserve |-> budget - trackedTotal,
        trackedTotal |-> trackedTotal, items |-> totals.items]

expenseBreakdown(coordinates, budget) ==
    LET totals == ExpenseLoop([hotel |-> 0, food |-> 0, spot |-> 0, transport |-> 0,
                               items |-> <<>>], coordinates)
        trackedTotal == totals.hotel + totals.food + totals.spot + totals.transport
        reserve == IF budget > trackedTotal THEN budget - trackedTotal ELSE 0
    IN [hotel |-> totals.hotel, food |-> totals.food, spot |-> totals.spot,
        transport |-> totals.transport, reserve |-> reserve,
        trackedTotal |-> trackedTotal, items |-> totals.items]

(***************************************************************************)
(* Expense run: aggregate on any entries and any budget text               *)
(***************************************************************************)
ExpNames == { <<"A">>, <<"QIAN", "WANG", "A">> }
\* absent, a price of 800 yuan, free, and undetermined with a deposit of 50
ExpCosts == { NoText, <<"Y", "8", "0", "0">>, Free, Undetermined \o <<"5", "0">> }
ExpTypes == { "hotel", "food", "spot", NoType }
ExpBudgets == { <<"5", "0", "0", "0">>, <<"5", ",", "0", "0", "0">>, <<"1", "0", "0">>,
                <<"x">> }

\* the collections of n entries
ExpInputs(n) ==
    [1..n -> [name : ExpNames, cost : ExpCosts, type : ExpTypes, day : {"Day 1"}]]

ExpenseInit ==
    /\ \E n \in 0..MaxExp : eCoordinates \in ExpInputs(n)
    /\ eBudgetEst \in ExpBudgets \cup {NoText}
    /\ eOut = NoBreakdown

ExpenseIdle == eCoordinates = <<>> /\ eBudgetEst = NoText /\ eOut = NoBreakdown

Aggregate ==
    /\ eOut = NoBreakdown
    /\ eOut' = expenseBreakdown(eCoordinates, totalBudget(eBudgetEst))
    /\ UNCHANGED <<eCoordinates, eBudgetEst>>

(***************************************************************************)
(* validCoords of InteractiveMap: the entries that become map points       *)
(*                                                                         *)
(* A coordinate component is undefined, a number or a text; NaN is the     *)
(* number parseFloat gives for a text that does not start with a number.   *)
(***************************************************************************)
undefined == [kind |-> "undefined"]
NaN == [kind |-> "NaN"]
Num(n) == [kind |-> "number", val |-> n]
Str(text) == [kind |-> "string", text |-> text]

\* parseFloat on a text of digits with an optional minus sign, NaN otherwise
parseFloat(text) ==
    LET t == trimStart(text)
        neg == t # <<>> /\ Head(t) = "-"
        digits == DigitPrefix(IF neg THEN Tail(t) ELSE t)
    IN IF digits = <<>> THEN NaN
       ELSE Num(IF neg THEN 0 - Number(digits) ELSE Number(digits))

\* typeof c.lat === 'string' ? parseFloat(c.lat) : c.lat
Normalize(v) == IF v.kind = "string" THEN parseFloat(v.text) ELSE v

\* the filter predicate of validCoords
KeepCoord(c) ==
    /\ c.lat # undefined /\ c.lat # NaN
    /\ c.lng # undefined /\ c.lng # NaN
    /\ c.lat # Num(0) /\ c.lng # Num(0)

validCoords(coordinates) ==
    SelectSeq([k \in 1..Len(coordinates) |->
                   [coordinates[k] EXCEPT !.lat = Normalize(@), !.lng = Normalize(@)]],
              KeepCoord)

(***************************************************************************)
(* Map run: the projection of any entries                                  *)
(***************************************************************************)
MapValues == { undefined, Num(0), Num(5), Str(<<"3">>), Str(<<"0">>), Str(<<"a">>) }
NoProjection == << [id |-> 0, lat |-> undefined, lng |-> undefined] >>

\* the collections of n entries, numbered in order
MapInputs(n) ==
    { [k \in 1..n |-> [id |-> k, lat |-> f[k].lat, lng |-> f[k].lng]] :
      f \in [1..n -> [lat : MapValues, lng : MapValues]] }

MapInit ==
    /\ \E n \in 0..MaxMap : mCoordinates \in MapInputs(n)
    /\ mOut = NoProjection
MapIdle == mCoordinates = <<>> /\ mOut = NoProjection

Project ==
    /\ mOut = NoProjection
    /\ mOut' = validCoords(mCoordinates)
    /\ UNCHANGED mCoordinates

(***************************************************************************)
(* The planning endpoint: POST /plan-trip = aiLimiter, validateTripInput,  *)
(* then the handler that calls the LLM service.                            *)
(*                                                                         *)
(* A field of the body is absent (undefined) or a text.                    *)
(***************************************************************************)
AiLimiterMax == 5
BudgetMax == 10000000
DaysMax == 365

limits == [destination |-> 100, travelers |-> 50, budget |-> 20, days |-> 10,
           personality |-> 100]
\* Object.entries(limits): the fields in the order the object literal lists them
LimitedFields == <<"destination", "travelers", "budget", "days", "personality">>

\* !value: a field that is undefined or the empty text
Falsy(v) == v = undefined \/ v = Str(<<>>)

\* parseInt(text): leading blanks, an optional sign, then digits; what follows the
\* digits is ignored
parseInt(v) ==
    IF v.kind # "string" THEN NaN
    ELSE LET t == trimStart(v.text)
             neg == t # <<>> /\ Head(t) = "-"
             digits == DigitPrefix(IF neg THEN Tail(t) ELSE t)
         IN IF digits = <<>> THEN NaN
            ELSE Num(IF neg THEN 0 - Number(digits) ELSE Number(digits))

NoResponse == [status |-> 0, code |-> ""]
Reply(status, code) == [status |-> status, code |-> code]
Continue == [status |-> -1, code |-> "next"]      \* next() was called

\* the first field over its limit, in the order of LimitedFields; 0 if none
FirstTooLong(body) ==
    LET over == {k \in 1..Len(LimitedFields) :
                    LET v == body[LimitedFields[k]]
                    IN ~Falsy(v) /\ Len(v.text) > limits[LimitedFields[k]]}
    IN IF over = {} THEN 0 ELSE CHOOSE k \in over : \A j \in over : k <= j

validateTripInput(body) ==
    IF Falsy(body.destination) \/ Falsy(body.startDate) \/ Falsy(body.travelers)
       \/ Falsy(body.budget) \/ Falsy(body.days)
    THEN Reply(400, "MISSING_FIELDS")
    ELSE IF FirstTooLong(body) # 0 THEN Reply(400, "FIELD_TOO_LONG")
    ELSE LET budgetNum == parseInt(body.budget)
             daysNum == parseInt(body.days)
         IN IF budgetNum = NaN \/ budgetNum.val < 0 \/ budgetNum.val > BudgetMax
            THEN Reply(400, "INVALID_BUDGET")
            ELSE IF daysNum = NaN \/ daysNum.val < 1 \/ daysNum.val > DaysMax
            THEN Reply(400, "INVALID_DAYS")
            ELSE Continue

\* what the handler answers once model.generateContent was called
LlmReplies == { Reply(200, ""), Reply(500, "API_NO_RESPONSE"),
                Reply(400, "SAFETY_BLOCK"), Reply(500, "EMPTY_RESPONSE"),
                Reply(429, "RATE_LIMITED") }

(***************************************************************************)
(* Endpoint run: requests with any body, one after the other               *)
(***************************************************************************)
Repeat(c, n) == [k \in 1..n |-> c]

Bodies ==
    [destination : {Str(<<"X">>), Str(Repeat("a", 101))},
     startDate : {undefined, Str(<<"d">>)},
     travelers : {Str(<<"2">>), Str(Repeat("a", 51))},
     budget : {undefined, Str(<<"5", "0", "0", "0">>), Str(<<"-", "5">>),
               Str(<<"a", "b", "c">>), Str(Repeat("9", 8)), Str(<<"1", "e", "9">>)},
     days : {undefined, Str(<<"5">>), Str(<<"0">>), Str(<<"4", "0", "0">>),
             Str(<<"1", "e", "3">>)},
     personality : {undefined, Str(Repeat("a", 101))}]

NoBody == [destination |-> undefined, startDate |-> undefined,
           travelers |-> undefined, budget |-> undefined, days |-> undefined,
           personality |-> undefined]

PlanIdle == rBody = NoBody /\ rRes = NoResponse /\ rLlm = FALSE /\ rHits = 0

\* POST /api/plan-trip
PlanTrip ==
    \E body \in Bodies :
        /\ rBody' = body
        /\ IF rHits >= AiLimiterMax
           THEN /\ rRes' = Reply(429, "RATE_LIMIT")
                /\ rLlm' = FALSE
                /\ UNCHANGED rHits
           ELSE /\ rHits' = rHits + 1
                /\ LET v == validateTripInput(body)
                   IN IF v # Continue
                      THEN rRes' = v /\ rLlm' = FALSE
                      ELSE \/ rRes' = Reply(500, "CONFIG_ERROR") /\ rLlm' = FALSE
                           \/ rRes' \in LlmReplies /\ rLlm' = TRUE

\* the limiter's window of one minute ends
WindowEnds == rHits > 0 /\ rHits' = 0 /\ UNCHANGED <<rBody, rRes, rLlm>>

(***************************************************************************)
(* The application shell: App's viewState and the InputForm it renders     *)
(* while the state is IDLE.  A field value is an opaque text.              *)
(***************************************************************************)
NoForm == [destination |-> "-", startDate |-> "-", travelers |-> "-",
           budget |-> "-", days |-> "-", personality |-> "-"]

\* useState initial value of formData
DefaultForm == [destination |-> "Dali", startDate |-> "tomorrow",
                travelers |-> "couple", budget |-> "5000", days |-> "5",
                personality |-> "chill"]

\* what the user may type or select in each field
FieldValues == [destination |-> {"", "Dali", "Kyoto"},
                startDate |-> {"tomorrow", "next week"},
                travelers |-> {"couple", "family"},
                budget |-> {"", "5000", "800"},
                days |-> {"5", "3"},
                personality |-> {"chill", "explorer"}]

ErrorMessages == {"400", "429", "5xx", "unknown"}

AppIdle ==
    /\ aView = "IDLE" /\ aForm = DefaultForm /\ aSubmitted = NoForm
    /\ aResult = FALSE /\ aError = ""

\* InputForm handleChange
handleChange ==
    /\ aView = "IDLE"
    /\ \E name \in DOMAIN FieldValues : \E value \in FieldValues[name] :
           aForm' = [aForm EXCEPT ![name] = value]
    /\ UNCHANGED <<aView, aSubmitted, aResult, aError>>

\* InputForm handleSubmit, then App handleFormSubmit up to the await: the view
\* becomes LOADING and the form is no longer rendered
handleFormSubmit ==
    /\ aView = "IDLE"
    /\ aForm.destination # "" /\ aForm.budget # "" /\ aForm.days # ""
    /\ aForm.startDate # "" /\ aForm.travelers # ""
    /\ aView' = "LOADING"
    /\ aSubmitted' = aForm
    /\ aForm' = NoForm
    /\ aError' = ""
    /\ UNCHANGED aResult

\* planTrip resolved
PlanResolved ==
    /\ aView = "LOADING"
    /\ aResult' = TRUE
    /\ aView' = "RESULT"
    /\ UNCHANGED <<aForm, aSubmitted, aError>>

\* planTrip rejected
PlanRejected ==
    /\ aView = "LOADING"
    /\ aError' \in ErrorMessages
    /\ aView' = "ERROR"
    /\ UNCHANGED <<aForm, aSubmitted, aResult>>

\* the retry button of the error panel and onReset of ResultView: the view
\* becomes IDLE and a new InputForm is mounted
handleReset ==
    /\ aView \in {"ERROR", "RESULT"}
    /\ aView' = "IDLE"
    /\ aResult' = FALSE
    /\ aError' = ""
    /\ aForm' = DefaultForm
    /\ UNCHANGED aSubmitted

(***************************************************************************)
(* Extraction of the structured payload: parseResponse of the server, the  *)
(* JSON transport, parseResponse of the client.                            *)
(*                                                                         *)
(* A response text is a sequence of tokens: "x" a character of narrative,  *)
(* " " white space, "F" a code fence, "J" the word json, "{" "}" "," as    *)
(* written, "R" the member "route_coordinates": [ one entry ].             *)
(***************************************************************************)
XTokens == {"x", " ", "F", "J", "{", "}", "R", ","}
TailLimit == 100

JsNull == [kind |-> "null"]
SyntaxError == [kind |-> "SyntaxError"]
\* an object with the members named; route_coordinates is <<>> when not a member
Obj(keys, rc) == [kind |-> "object", keys |-> keys, route_coordinates |-> rc]
Truthy(v) == v.kind = "object"
RouteEntry == Entry(1, "Day 1", T0900, "A", "spot")

\* the first position from p on that holds no white space (Len(s) + 1 if none)
RECURSIVE SkipWs(_, _)
SkipWs(s, p) == IF p <= Len(s) /\ s[p] = " " THEN SkipWs(s, p + 1) ELSE p

\* lastIndexOf(c, from): the last position <= from that holds c, 0 if none
LastIndexOf(s, c, from) ==
    LET at == {k \in 1..from : k <= Len(s) /\ s[k] = c}
    IN IF at = {} THEN 0 ELSE CHOOSE k \in at : \A j \in at : j <= k

\* JSON.parse of an object text: members separated by commas, white space
\* anywhere between the tokens
JSONparse(s) ==
    LET t == SelectSeq(s, LAMBDA c : c # " ")
        inner == SubSeq(t, 2, Len(t) - 1)
    IN IF Len(t) < 2 \/ t[1] # "{" \/ t[Len(t)] # "}" THEN SyntaxError
       ELSE IF inner = <<>> THEN Obj({}, <<>>)
       ELSE IF /\ Len(inner) % 2 = 1
               /\ \A k \in 1..Len(inner) :
                      inner[k] = (IF k % 2 = 1 THEN "R" ELSE ",")
       THEN Obj({"route_coordinates"}, <<RouteEntry>>)
       ELSE SyntaxError

\* replace(/,(\s*[}\]])/g, '$1'): a comma that only white space separates from
\* a closing brace is dropped
stripTrailingCommas(s) ==
    LET keep == {k \in 1..Len(s) :
                    ~(s[k] = "," /\ SkipWs(s, k + 1) <= Len(s)
                      /\ s[SkipWs(s, k + 1)] = "}")}
        nth(n) == CHOOSE k \in keep : Cardinality({j \in keep : j <= k}) = n
    IN [n \in 1..Cardinality(keep) |-> s[nth(n)]]

\* the token alphabet has no comment; the two comment replacements change nothing
sanitizeAndParse(jsonStr) == JSONparse(stripTrailingCommas(jsonStr))

tryParse(str) ==
    LET r == sanitizeAndParse(str) IN IF r = SyntaxError THEN JsNull ELSE r

NoMatch == [index |-> 0, open |-> 0, close |-> 0, end |-> 0]

\* where the opening brace of a fence at p is: ```(?:json)?\s*\{ ; 0 if none
FenceBraceAt(s, p) ==
    IF p > Len(s) \/ s[p] # "F" THEN 0
    ELSE LET a == IF p + 1 <= Len(s) /\ s[p + 1] = "J" THEN p + 2 ELSE p + 1
             q == SkipWs(s, a)
         IN IF q <= Len(s) /\ s[q] = "{" THEN q ELSE 0

\* the match of /```(?:json)?\s*(\{[\s\S]*?\})\s*```/ that starts at p
CodeBlockAt(s, p) ==
    LET q == FenceBraceAt(s, p)
        closes == {e \in (q + 1)..Len(s) :
                      /\ s[e] = "}"
                      /\ SkipWs(s, e + 1) <= Len(s)
                      /\ s[SkipWs(s, e + 1)] = "F"}
        e1 == CHOOSE e \in closes : \A j \in closes : e <= j
    IN IF q = 0 \/ closes = {} THEN NoMatch
       ELSE [index |-> p, open |-> q, close |-> e1, end |-> SkipWs(s, e1 + 1)]

\* text.match(...): the leftmost match
codeBlockMatch(s) ==
    LET at == {p \in 1..Len(s) : CodeBlockAt(s, p) # NoMatch}
    IN IF at = {} THEN NoMatch
       ELSE CodeBlockAt(s, CHOOSE p \in at : \A j \in at : p <= j)

\* text.match(/```(?:json)?\s*(\{[\s\S]*)/): the leftmost fence with a brace
startMatch(s) ==
    LET at == {p \in 1..Len(s) : FenceBraceAt(s, p) # 0}
        p1 == CHOOSE p \in at : \A j \in at : p <= j
    IN IF at = {} THEN NoMatch
       ELSE [index |-> p1, open |-> FenceBraceAt(s, p1), close |-> Len(s),
             end |-> Len(s)]

\* text.replace(match[0], ''): the first occurrence of the matched text is cut
removeFirst(s, sub) ==
    LET at == {p \in 1..(Len(s) - Len(sub) + 1) :
                  SubSeq(s, p, p + Len(sub) - 1) = sub}
        p1 == CHOOSE p \in at : \A j \in at : p <= j
    IN IF at = {} THEN s
       ELSE SubSeq(s, 1, p1 - 1) \o SubSeq(s, p1 + Len(sub), Len(s))

NoParsed == [rawText |-> <<>>, metadata |-> undefined]

\* Strategy 1, cutting the block out of the text whether or not it parsed
Strategy1_CutsUnparsedBlock(text) ==
    LET m == codeBlockMatch(text)
        metadata == IF m = NoMatch THEN undefined
                    ELSE tryParse(SubSeq(text, m.open, m.close))
    IN [metadata |-> metadata,
        cleanText |-> IF m # NoMatch
                      THEN trim(removeFirst(text, SubSeq(text, m.index, m.end)))
                      ELSE text]

\* Strategy 1: a fenced code block
Strategy1(text) ==
    LET m == codeBlockMatch(text)
        metadata == IF m = NoMatch THEN undefined
                    ELSE tryParse(SubSeq(text, m.open, m.close))
    IN [metadata |-> metadata,
        cleanText |-> IF Truthy(metadata)
                      THEN trim(removeFirst(text, SubSeq(text, m.index, m.end)))
                      ELSE text]

\* Strategy 2: a code block that starts and is cut before its closing fence
Strategy2(text, sofar) ==
    LET m == startMatch(text)
        lastBrace == LastIndexOf(text, "}", Len(text))
        metadata == tryParse(SubSeq(text, m.open, lastBrace))
    IN IF Truthy(sofar.metadata) \/ m = NoMatch \/ lastBrace < m.open THEN sofar
       ELSE [metadata |-> metadata,
             cleanText |-> IF Truthy(metadata)
                           THEN trim(SubSeq(text, 1, m.index - 1))
                           ELSE sofar.cleanText]

\* Strategy 3: from the brace before the last "route_coordinates" to the last brace
Strategy3(text, sofar) ==
    LET keyIndex == LastIndexOf(text, "R", Len(text))
        openBrace == LastIndexOf(text, "{", keyIndex)
        closeBrace == LastIndexOf(text, "}", Len(text))
        metadata == tryParse(SubSeq(text, openBrace, closeBrace))
    IN IF \/ Truthy(sofar.metadata) \/ keyIndex = 0 \/ openBrace = 0
          \/ closeBrace = 0 \/ closeBrace <= openBrace
       THEN sofar
       ELSE [metadata |-> metadata,
             cleanText |-> IF Truthy(metadata) /\ Len(text) - (closeBrace - 1) < TailLimit
                           THEN trim(SubSeq(text, 1, openBrace - 1))
                           ELSE sofar.cleanText]

\* parseResponse(text) of the server
parseResponse(text) ==
    LET r == Strategy3(text, Strategy2(text, Strategy1(text)))
    IN [rawText |-> r.cleanText, metadata |-> r.metadata]

\* res.json then response.json(): null stays null, an undefined member is absent
JsonTransport(data) == data

\* parseResponse(rawText, metadata) of the client
parseResponseClient(rawText, metadata) ==
    IF Truthy(metadata) THEN [rawText |-> rawText, metadata |-> metadata]
    ELSE LET m == codeBlockMatch(rawText)
             parsed == IF m = NoMatch THEN SyntaxError
                       ELSE JSONparse(SubSeq(rawText, m.open, m.close))
         IN IF parsed = SyntaxError
            THEN [rawText |-> rawText, metadata |-> undefined]
            ELSE [rawText |-> trim(removeFirst(rawText,
                                        SubSeq(rawText, m.index, m.end))),
                  metadata |-> parsed]

\* the texts of n tokens
XInputs(n) == [1..n -> XTokens]

ExtractInit ==
    /\ \E n \in 1..MaxText : xText \in XInputs(n)
    /\ xResult = NoParsed /\ xPhase = "input"

\* the handler answers with parseResponse(text) and planTrip returns what the
\* client makes of it
Extract ==
    /\ xPhase = "input"
    /\ LET data == JsonTransport(parseResponse(xText))
       IN xResult' = parseResponseClient(data.rawText, data.metadata)
    /\ xPhase' = "parsed"
    /\ UNCHANGED xText

ExtractIdle == xText = <<>> /\ xResult = NoParsed /\ xPhase = "input"

NoViewport == [south |-> 0, north |-> 0, west |-> 0, east |-> 0]
NoListener == << [id |-> 0, lat |-> undefined, lng |-> undefined] >>
MarkIdle ==
    /\ kCoordinates = <<>> /\ kMounted = FALSE /\ kMap = FALSE
    /\ kViewport = NoViewport /\ kMarkers = {} /\ kListener = NoListener

LaterIdle == AppIdle /\ ExtractIdle /\ MarkIdle

(***************************************************************************)
(* The store: Seed once, then Insert / Delete / Move / Retime /            *)
(* ReplaceContent, each handler running to completion                      *)
(***************************************************************************)
Pool == << Entry(1, NoDay, T0900_1000, "A", "hotel"),
           Entry(2, "Day 1", T0930_1100, "B", "food"),
           Entry(3, "Day 2", T0930_1100, "C", "spot"),
           Entry(4, "Day 3", T0900, "D", "spot"),
           Entry(5, "Day 3", T0930_1100, "E", "food") >>

\* the raw entries of a planning result: pool entries, each at most once, any order
SeedInputs ==
    LET picks == UNION { [1..n -> 1..Len(Pool)] : n \in 0..MaxSeed }
    IN { [k \in DOMAIN f |-> Pool[f[k]]] :
         f \in { g \in picks : \A i, j \in DOMAIN g : i # j => g[i] # g[j] } }

RetimeTexts == {T1000_1100, T0900, Placeholder, <<>>}
Recs == { [name |-> "R", desc |-> "rdesc", cost |-> "80", rating |-> "4.8"] }
\* raw: the planning result a Seed was given (empty for the other operations)
NoOp == [op |-> "none", from |-> NoDay, to |-> NoDay, id |-> 0, raw |-> <<>>]

Max(S) == CHOOSE x \in S : \A y \in S : y <= x
NewId(items) == 1 + Max({Len(Pool)} \cup {items[k].id : k \in 1..Len(items)})

StoreInit ==
    /\ itineraryItems = <<>>
    /\ dayWarnings = EmptyWarnings
    /\ draggedItemIndex = NoIndex
    /\ editingTimeIndex = NoIndex
    /\ tempTime = <<>>
    /\ recTargetIndex = NoIndex
    /\ seeded = FALSE
    /\ nOps = 0
    /\ lastOp = NoOp
    /\ failed = FALSE

ParseIdle == pText = <<>> /\ pResult = null
ValidateIdle ==
    vItems = <<>> /\ vOut = NoResult /\ vOut2 = NoResult /\ vPhase = "input"
UpdateIdle ==
    /\ uItems = <<>> /\ uDays = <<>> /\ uWarn = EmptyWarnings
    /\ uOut = <<>> /\ uPhase = "input"

NoViews == [expenseBreakdown |-> NoBreakdown, daysMap |-> <<>>, topSpots |-> <<>>,
            validCoords |-> <<>>, sidebar |-> <<>>]
ViewsIdle == views = NoViews

uiVars == <<draggedItemIndex, editingTimeIndex, recTargetIndex>>
otherRuns == <<parseVars, validateVars, updateVars, expenseVars, mapVars, views,
               planVars, laterRuns>>

Seed ==
    /\ ~seeded
    /\ \E raw \in SeedInputs :
           LET r == SeedEffect(raw)
           IN /\ itineraryItems' = r.items
              /\ dayWarnings' = r.warnings
              /\ lastOp' = [NoOp EXCEPT !.op = "Seed", !.raw = raw]
    /\ seeded' = TRUE
    /\ UNCHANGED <<uiVars, tempTime, nOps, failed, otherRuns>>

CanOperate == seeded /\ nOps < MaxOps

\* SearchModal's add button: handleAddLocation(location, selectedDay)
Insert ==
    /\ CanOperate
    /\ Len(itineraryItems) < MaxItems
    /\ \E day \in (IF itineraryItems = <<>> THEN Days ELSE dayKeys(itineraryItems)) :
           LET id == NewId(itineraryItems)
               r == handleAddLocation(itineraryItems, dayWarnings, id, "N", day)
           IN /\ itineraryItems' = r.items
              /\ dayWarnings' = r.warnings
              /\ lastOp' = [op |-> "Insert", from |-> day, to |-> day, id |-> id,
                            raw |-> <<>>]
    /\ nOps' = nOps + 1
    /\ UNCHANGED <<uiVars, tempTime, seeded, failed, otherRuns>>

Delete ==
    /\ CanOperate
    /\ \E index \in 1..Len(itineraryItems) :
           LET r == handleDeleteItem(itineraryItems, dayWarnings, index)
               day == DayOf(itineraryItems[index])
           IN /\ itineraryItems' = r.items
              /\ dayWarnings' = r.warnings
              /\ lastOp' = [op |-> "Delete", from |-> day, to |-> day,
                            id |-> itineraryItems[index].id, raw |-> <<>>]
    /\ nOps' = nOps + 1
    /\ UNCHANGED <<uiVars, tempTime, seeded, failed, otherRuns>>

\* handleDragStart(index), then handleDrop on the element of another entry,
\* which is rendered in the group of its day; the card whose time is being
\* edited is not draggable
Move ==
    /\ CanOperate
    /\ \E index, target \in 1..Len(itineraryItems) : \E insertAfter \in BOOLEAN :
           /\ target # index
           /\ index # editingTimeIndex
           /\ LET targetItem == itineraryItems[target]
                  targetDay == DayOf(targetItem)
                  r == handleDrop(itineraryItems, dayWarnings, index, targetItem,
                                  targetDay, insertAfter)
              IN /\ itineraryItems' = r.items
                 /\ dayWarnings' = r.warnings
                 /\ lastOp' = [op |-> "Move", from |-> DayOf(itineraryItems[index]),
                               to |-> targetDay, id |-> itineraryItems[index].id,
                               raw |-> <<>>]
    /\ draggedItemIndex' = NoIndex
    /\ nOps' = nOps + 1
    /\ UNCHANGED <<editingTimeIndex, recTargetIndex, tempTime, seeded, failed, otherRuns>>

\* handleStartEditTime(index, item.time), the input's onChange, handleSaveTime
Retime ==
    /\ CanOperate
    /\ \E index \in 1..Len(itineraryItems) : \E text \in RetimeTexts \ {<<>>} :
           LET r == handleSaveTime(itineraryItems, dayWarnings, index, text)
               day == DayOf(itineraryItems[index])
           IN /\ itineraryItems' = r.items
              /\ dayWarnings' = r.warnings
              /\ lastOp' = [op |-> "Retime", from |-> day, to |-> day,
                            id |-> itineraryItems[index].id, raw |-> <<>>]
              /\ tempTime' = text
    /\ editingTimeIndex' = NoIndex
    /\ nOps' = nOps + 1
    /\ UNCHANGED <<draggedItemIndex, recTargetIndex, seeded, failed, otherRuns>>

\* the same with the input emptied: handleSaveTime only leaves the edit mode
CancelEdit ==
    /\ CanOperate
    /\ itineraryItems # <<>>
    /\ <<>> \in RetimeTexts
    /\ editingTimeIndex' = NoIndex
    /\ tempTime' = <<>>
    /\ lastOp' = [NoOp EXCEPT !.op = "CancelEdit"]
    /\ nOps' = nOps + 1
    /\ UNCHANGED <<itineraryItems, dayWarnings, draggedItemIndex, recTargetIndex,
                   seeded, failed, otherRuns>>

\* handleOpenRecommendation(index, type) on a food or hotel entry, then
\* handleSelectRecommendation(rec) in the modal
ReplaceContent ==
    /\ CanOperate
    /\ \E index \in 1..Len(itineraryItems) : \E rec \in Recs :
           /\ itineraryItems[index].type \in {"food", "hotel"}
           /\ itineraryItems' = handleSelectRecommendation(itineraryItems, index, rec)
           /\ LET day == DayOf(itineraryItems[index])
              IN lastOp' = [op |-> "ReplaceContent", from |-> day, to |-> day,
                            id |-> itineraryItems[index].id, raw |-> <<>>]
    /\ recTargetIndex' = NoIndex
    /\ nOps' = nOps + 1
    /\ UNCHANGED <<dayWarnings, draggedItemIndex, editingTimeIndex, tempTime,
                   seeded, failed, otherRuns>>

Init == StoreInit /\ ParseIdle /\ ValidateIdle /\ UpdateIdle /\ ExpenseIdle /\ MapIdle /\ ViewsIdle /\ PlanIdle /\ LaterIdle

Next ==
    \/ Seed
    \/ Insert
    \/ Delete
    \/ Move
    \/ Retime
    \/ CancelEdit
    \/ ReplaceContent

Spec == Init /\ [][Next]_vars

(***************************************************************************)
(* Parser run and validator run as specifications                          *)
(***************************************************************************)
InitParse == StoreInit /\ ParseInit /\ ValidateIdle /\ UpdateIdle /\ ExpenseIdle /\ MapIdle /\ ViewsIdle /\ PlanIdle /\ LaterIdle

ParseNext ==
    ParseType /\ UNCHANGED <<storeVars, validateVars, updateVars, expenseVars, mapVars, views, planVars, laterRuns>>

SpecParse == InitParse /\ [][ParseNext]_vars

InitValidate ==
    StoreInit /\ ParseIdle /\ ValidateInit /\ UpdateIdle /\ ExpenseIdle /\ MapIdle /\ ViewsIdle /\ PlanIdle /\ LaterIdle

ValidateNext ==
    \/ Validate /\ UNCHANGED <<storeVars, parseVars, updateVars, expenseVars, mapVars, views, planVars, laterRuns>>
    \/ ValidateAgain /\ UNCHANGED <<storeVars, parseVars, updateVars, expenseVars, mapVars, views, planVars, laterRuns>>

SpecValidate == InitValidate /\ [][ValidateNext]_vars

(***************************************************************************)
(* Re-validation run: updateItineraryAndWarnings on any collection and any *)
(* list of affected days                                                   *)
(***************************************************************************)
UDayLabels == {NoDay, "Day 1", "Day 2"}
UTimes == {T0900_1000, T0930_1100, Placeholder}
StaleWarnings == [d \in {"Day 2"} |-> <<Warning(Pool[1], Pool[2])>>]

UInputs ==
    UNION { { [k \in 1..n |-> Entry(k, d[k], t[k], VNames[k], "spot")] :
              d \in [1..n -> UDayLabels], t \in [1..n -> UTimes] } :
            n \in 0..MaxUpd }

UAffected == UNION { [1..n -> Days] : n \in 0..MaxAffected }

UpdateInit ==
    /\ uItems \in UInputs
    /\ uDays \in UAffected
    /\ uWarn \in {EmptyWarnings, StaleWarnings}
    /\ uOut = <<>>
    /\ uPhase = "input"

Revalidate ==
    /\ uPhase = "input"
    /\ LET r == updateItineraryAndWarnings(uItems, uDays, uWarn)
       IN uOut' = r.items /\ uWarn' = r.warnings
    /\ uPhase' = "done"
    /\ UNCHANGED <<uItems, uDays>>

UpdateNext ==
    Revalidate /\ UNCHANGED <<storeVars, parseVars, validateVars, expenseVars, mapVars, views, planVars, laterRuns>>

InitUpdate == StoreInit /\ ParseIdle /\ ValidateIdle /\ UpdateInit /\ ExpenseIdle /\ MapIdle /\ ViewsIdle /\ PlanIdle /\ LaterIdle

SpecUpdate == InitUpdate /\ [][UpdateNext]_vars

InitExpense == StoreInit /\ ParseIdle /\ ValidateIdle /\ UpdateIdle /\ ExpenseInit /\ MapIdle /\ ViewsIdle /\ PlanIdle /\ LaterIdle

ExpenseNext ==
    Aggregate /\ UNCHANGED <<storeVars, parseVars, validateVars, updateVars, mapVars,
                            views, planVars, laterRuns>>

SpecExpense == InitExpense /\ [][ExpenseNext]_vars

InitMap ==
    StoreInit /\ ParseIdle /\ ValidateIdle /\ UpdateIdle /\ ExpenseIdle /\ MapInit /\ ViewsIdle /\ PlanIdle /\ LaterIdle

MapNext ==
    Project /\ UNCHANGED <<storeVars, parseVars, validateVars, updateVars, expenseVars,
                          views, planVars, laterRuns>>

SpecMap == InitMap /\ [][MapNext]_vars

PlanNext ==
    \/ PlanTrip /\ UNCHANGED <<storeVars, parseVars, validateVars, updateVars,
                                expenseVars, mapVars, views, laterRuns>>
    \/ WindowEnds /\ UNCHANGED <<storeVars, parseVars, validateVars, updateVars,
                                  expenseVars, mapVars, views, laterRuns>>

SpecPlan == Init /\ [][PlanNext]_vars

AppRest == <<storeVars, parseVars, validateVars, updateVars, expenseVars, mapVars,
             views, planVars, extractVars, markVars>>

AppNext ==
    \/ handleChange /\ UNCHANGED AppRest
    \/ handleFormSubmit /\ UNCHANGED AppRest
    \/ PlanResolved /\ UNCHANGED AppRest
    \/ PlanRejected /\ UNCHANGED AppRest
    \/ handleReset /\ UNCHANGED AppRest

SpecApp == Init /\ [][AppNext]_vars

\* ResultView mounts with data = the ParsedResponse: the seed effect
SeedFromResponse ==
    /\ xPhase = "parsed" /\ ~seeded
    /\ IF Truthy(xResult.metadata) /\ "route_coordinates" \in xResult.metadata.keys
       THEN LET raw == xResult.metadata.route_coordinates
                r == SeedEffect(raw)
            IN /\ itineraryItems' = r.items
               /\ dayWarnings' = r.warnings
               /\ lastOp' = [NoOp EXCEPT !.op = "Seed", !.raw = raw]
       ELSE /\ UNCHANGED <<itineraryItems, dayWarnings>>
            /\ lastOp' = [NoOp EXCEPT !.op = "Mount"]
    /\ seeded' = TRUE
    /\ xPhase' = "seeded"
    /\ UNCHANGED <<draggedItemIndex, editingTimeIndex, recTargetIndex, tempTime,
                   nOps, failed, xText, xResult>>

InitExtract ==
    /\ StoreInit /\ ParseIdle /\ ValidateIdle /\ UpdateIdle /\ ExpenseIdle /\ MapIdle
    /\ ViewsIdle /\ PlanIdle /\ AppIdle /\ ExtractInit /\ MarkIdle

ExtractNext ==
    \/ Extract /\ UNCHANGED <<storeVars, parseVars, validateVars, updateVars,
                               expenseVars, mapVars, views, planVars, appVars,
                               markVars>>
    \/ SeedFromResponse /\ UNCHANGED <<parseVars, validateVars, updateVars,
                                        expenseVars, mapVars, views, planVars,
                                        appVars, markVars>>

SpecExtract == InitExtract /\ [][ExtractNext]_vars

(***************************************************************************)
(* Seed run: the seed effect on any planning result of up to MaxPlan       *)
(* entries                                                                 *)
(***************************************************************************)
PlanDays == {NoDay, "Day 1", "Day 2"}
PlanTimes == {T1400, T0900, T1100, T0930_1100, Placeholder}

\* the plans of n entries
PlanInputs(n) ==
    { [k \in 1..n |-> Entry(k, f[k].day, f[k].time, VNames[k], "spot")] :
      f \in [1..n -> [day : PlanDays, time : PlanTimes]] }

SeedPlan ==
    /\ ~seeded
    /\ \E n \in 0..MaxPlan : \E raw \in PlanInputs(n) :
           LET r == SeedEffect(raw)
           IN /\ itineraryItems' = r.items
              /\ dayWarnings' = r.warnings
              /\ lastOp' = [NoOp EXCEPT !.op = "Seed", !.raw = raw]
    /\ seeded' = TRUE
    /\ UNCHANGED <<uiVars, tempTime, nOps, failed, otherRuns>>

SeedNext == SeedPlan

SpecSeed == Init /\ [][SeedNext]_vars

(***************************************************************************)
(* Edit run: the time editor's handlers one by one (start the edit, type,  *)
(* save), interleaved with Insert, Delete and Move                         *)
(***************************************************************************)
EditPool == << Entry(1, "Day 1", T0900, "A", "spot"),
               Entry(2, "Day 1", T1100_1200, "B", "food"),
               Entry(3, "Day 2", T0930_1100, "C", "hotel") >>

EditInputs ==
    LET picks == UNION { [1..n -> 1..Len(EditPool)] : n \in 0..Len(EditPool) }
    IN { [k \in DOMAIN f |-> EditPool[f[k]]] :
         f \in { g \in picks : \A i, j \in DOMAIN g : i # j => g[i] # g[j] } }

EditTexts == {T1130, Placeholder, <<>>}

SeedEdit ==
    /\ ~seeded
    /\ \E raw \in EditInputs :
           LET r == SeedEffect(raw)
           IN /\ itineraryItems' = r.items
              /\ dayWarnings' = r.warnings
              /\ lastOp' = [NoOp EXCEPT !.op = "Seed", !.raw = raw]
    /\ seeded' = TRUE
    /\ UNCHANGED <<uiVars, tempTime, nOps, failed, otherRuns>>

\* an input that is rendered for any editingTimeIndex, also a stale one
TimeInputRendered_Always(items, index) == index # NoIndex

\* isEditingTime: the input (with its blur, Enter and save button) is rendered
\* in the card of the entry whose index is editingTimeIndex
TimeInputRendered(items, index) == index \in 1..Len(items)

\* the time display of a card is clicked: handleStartEditTime(globalIndex, item.time);
\* the card under edit shows the input in place of its time display
StartEditTime ==
    /\ seeded
    /\ \E index \in 1..Len(itineraryItems) :
           /\ index # editingTimeIndex
           /\ itineraryItems[index].time # <<>>
           /\ editingTimeIndex' = index
           /\ tempTime' = itineraryItems[index].time
    /\ UNCHANGED <<itineraryItems, dayWarnings, draggedItemIndex, recTargetIndex,
                   seeded, nOps, lastOp, failed, otherRuns>>

\* the input's onChange: setTempTime(e.target.value)
ChangeTime ==
    /\ TimeInputRendered(itineraryItems, editingTimeIndex)
    /\ \E text \in EditTexts : tempTime' = text
    /\ UNCHANGED <<itineraryItems, dayWarnings, uiVars, seeded, nOps, lastOp,
                   failed, otherRuns>>

\* the input's blur, Enter or save button: handleSaveTime()
SaveTime ==
    /\ CanOperate
    /\ TimeInputRendered(itineraryItems, editingTimeIndex)
    /\ IF editingTimeIndex # NoIndex /\ tempTime # <<>>
       THEN IF editingTimeIndex \in 1..Len(itineraryItems)
            THEN LET r == handleSaveTime(itineraryItems, dayWarnings,
                                         editingTimeIndex, tempTime)
                     e == itineraryItems[editingTimeIndex]
                 IN /\ itineraryItems' = r.items
                    /\ dayWarnings' = r.warnings
                    /\ editingTimeIndex' = NoIndex
                    /\ lastOp' = [op |-> "SaveTime", from |-> DayOf(e),
                                  to |-> DayOf(e), id |-> e.id, raw |-> <<>>]
                    /\ UNCHANGED failed
            ELSE \* newItems[editingTimeIndex] is undefined: reading .day throws
                 /\ failed' = TRUE
                 /\ lastOp' = [NoOp EXCEPT !.op = "SaveTime"]
                 /\ UNCHANGED <<itineraryItems, dayWarnings, editingTimeIndex>>
       ELSE /\ editingTimeIndex' = NoIndex
            /\ lastOp' = [NoOp EXCEPT !.op = "SaveTime"]
            /\ UNCHANGED <<itineraryItems, dayWarnings, failed>>
    /\ nOps' = nOps + 1
    /\ UNCHANGED <<draggedItemIndex, recTargetIndex, tempTime, seeded, otherRuns>>

EditNext ==
    \/ SeedEdit
    \/ StartEditTime
    \/ ChangeTime
    \/ SaveTime
    \/ Insert
    \/ Delete
    \/ Move

SpecEdit == Init /\ [][EditNext]_vars

(***************************************************************************)
(* The derived views of a render, as array programs over itineraryItems    *)
(* (InteractiveMap receives the same array as its coordinates prop).       *)
(*                                                                         *)
(* filter, map and slice return a new array; sort sorts its receiver in    *)
(* place. Each view is a record of its value (view) and of the array the   *)
(* store holds once the view has been computed (coordinates).              *)
(*                                                                         *)
(* The store writes names, costs and ratings by short labels; the tables   *)
(* below give the text or the number a label stands for.                   *)
(***************************************************************************)
CostText == [c \in {"120", "80", "tbd"} |->
                CASE c = "120" -> <<"Y", "1", "2", "0">>
                  [] c = "80" -> <<"Y", "8", "0">>
                  [] c = "tbd" -> Undetermined]

\* parseFloat(rating.replace(/[^\d.]/g, '') || '0'), in tenths
RatingValue == [r \in {"4.5", "4.8", "New"} |->
                   CASE r = "4.5" -> 45 [] r = "4.8" -> 48 [] r = "New" -> 0]

\* the coordinate a store entry carries: the entry with id 1 has one
LatLngOf(item) ==
    IF item.id = 1 THEN [lat |-> Num(5), lng |-> Str(<<"3">>)]
    ELSE [lat |-> undefined, lng |-> undefined]

\* expenseBreakdown reads coordinates with forEach and pushes to its own array
ExpenseView(items) ==
    [view |-> expenseBreakdown(
                  [k \in 1..Len(items) |->
                      [name |-> <<items[k].name>>, cost |-> CostText[items[k].cost],
                       type |-> items[k].type, day |-> items[k].day]], 0),
     coordinates |-> items]

\* daysMap pushes the entries into arrays of its own
DaysMapView(items) == [view |-> daysMap(items), coordinates |-> items]

\* c.type === 'spot' && c.rating
IsRatedSpot(c) == c.type = "spot" /\ c.rating # ""

\* sort((a, b) => rb - ra): stable, highest rating first
RECURSIVE InsertByRating(_, _)
InsertByRating(x, sorted) ==
    IF sorted = <<>> THEN <<x>>
    ELSE IF RatingValue[x.rating] - RatingValue[Head(sorted).rating] <= 0
         THEN <<Head(sorted)>> \o InsertByRating(x, Tail(sorted))
         ELSE <<x>> \o sorted

RECURSIVE SortByRating(_)
SortByRating(s) ==
    IF s = <<>> THEN <<>>
    ELSE InsertByRating(s[Len(s)], SortByRating(SubSeq(s, 1, Len(s) - 1)))

\* slice(0, 3)
Slice3(s) == SubSeq(s, 1, IF Len(s) < 3 THEN Len(s) ELSE 3)

\* a topSpots that sorts itineraryItems itself and filters afterwards
TopSpotsView_SortsStore(items) ==
    LET sorted == SortByRating(items)
    IN [view |-> Slice3(SelectSeq(sorted, IsRatedSpot)), coordinates |-> sorted]

\* itineraryItems.filter(...).sort(...).slice(0, 3): the sort works on the
\* array filter returned
TopSpotsView(items) ==
    LET filtered == SelectSeq(items, IsRatedSpot)
    IN [view |-> Slice3(SortByRating(filtered)), coordinates |-> items]

\* validCoords maps to spread copies and filters
ValidCoordsView(items) ==
    [view |-> validCoords([k \in 1..Len(items) |->
                              [id |-> items[k].id, lat |-> LatLngOf(items[k]).lat,
                               lng |-> LatLngOf(items[k]).lng]]),
     coordinates |-> items]

\* the order localeCompare gives the characters of time texts: punctuation,
\* digits, then the two characters of the placeholder
CharRank == [c \in {"-", ":", "w", "d"} \cup Digits |->
                CASE c = "-" -> 1 [] c = ":" -> 2 [] c = "d" -> 13 [] c = "w" -> 14
                  [] OTHER -> 3 + DigitVal[c]]

\* a.localeCompare(b) < 0, = 0, > 0 as -1, 0, 1
RECURSIVE localeCompare(_, _)
localeCompare(a, b) ==
    IF a = <<>> THEN (IF b = <<>> THEN 0 ELSE -1)
    ELSE IF b = <<>> THEN 1
    ELSE IF CharRank[Head(a)] < CharRank[Head(b)] THEN -1
    ELSE IF CharRank[Head(a)] > CharRank[Head(b)] THEN 1
    ELSE localeCompare(Tail(a), Tail(b))

\* a.time || "00:00"
TimeOrMidnight(c) == IF c.time = <<>> THEN <<"0", "0", ":", "0", "0">> ELSE c.time

RECURSIVE InsertByTimeText(_, _)
InsertByTimeText(x, sorted) ==
    IF sorted = <<>> THEN <<x>>
    ELSE IF localeCompare(TimeOrMidnight(Head(sorted)), TimeOrMidnight(x)) <= 0
         THEN <<Head(sorted)>> \o InsertByTimeText(x, Tail(sorted))
         ELSE <<x>> \o sorted

RECURSIVE SortByTimeText(_)
SortByTimeText(s) ==
    IF s = <<>> THEN <<>>
    ELSE InsertByTimeText(s[Len(s)], SortByTimeText(SubSeq(s, 1, Len(s) - 1)))

\* c.day || the sidebar's label for an entry without day
SidebarDayOf(c) == IF c.day = NoDay THEN "UNSET" ELSE c.day

RECURSIVE SidebarDays(_, _)
SidebarDays(items, seen) ==
    IF items = <<>> THEN <<>>
    ELSE IF SidebarDayOf(Head(items)) \in seen THEN SidebarDays(Tail(items), seen)
    ELSE <<SidebarDayOf(Head(items))>>
         \o SidebarDays(Tail(items), seen \cup {SidebarDayOf(Head(items))})

\* the sidebar: for each day, coordinates.filter(...).sort(...)
SidebarView(items) ==
    LET days == SidebarDays(items, {})
    IN [view |-> [k \in 1..Len(days) |->
                     [day |-> days[k],
                      dayItems |-> SortByTimeText(
                          SelectSeq(items, LAMBDA c : SidebarDayOf(c) = days[k]))]],
        coordinates |-> items]

\* one render: every view is computed from the array the one before left
RenderViews(items) ==
    CHOOSE r \in
        UNION { UNION { UNION { UNION {
            { [views |-> [expenseBreakdown |-> e.view, daysMap |-> d.view,
                          topSpots |-> t.view, validCoords |-> v.view,
                          sidebar |-> b.view],
               coordinates |-> b.coordinates] :
              b \in {SidebarView(v.coordinates)} } :
            v \in {ValidCoordsView(t.coordinates)} } :
            t \in {TopSpotsView(d.coordinates)} } :
            d \in {DaysMapView(e.coordinates)} } :
            e \in {ExpenseView(items)} } : TRUE

(***************************************************************************)
(* View run: store operations with a render after any of them              *)
(***************************************************************************)
ViewPool == << Entry(1, "Day 2", T0930_1100, "A", "spot"),
               [Entry(2, "Day 1", T0900_1000, "B", "spot") EXCEPT !.rating = "4.8"],
               Entry(3, NoDay, Placeholder, "C", "food") >>

ViewInputs ==
    LET picks == UNION { [1..n -> 1..Len(ViewPool)] : n \in 0..Len(ViewPool) }
    IN { [k \in DOMAIN f |-> ViewPool[f[k]]] :
         f \in { g \in picks : \A i, j \in DOMAIN g : i # j => g[i] # g[j] } }

SeedViews ==
    /\ ~seeded
    /\ \E raw \in ViewInputs :
           LET r == SeedEffect(raw)
           IN /\ itineraryItems' = r.items
              /\ dayWarnings' = r.warnings
              /\ lastOp' = [NoOp EXCEPT !.op = "Seed", !.raw = raw]
    /\ seeded' = TRUE
    /\ UNCHANGED <<uiVars, tempTime, nOps, failed, otherRuns>>

\* a render after a state change: the useMemo bodies and InteractiveMap run
Render ==
    /\ seeded
    /\ \E r \in {RenderViews(itineraryItems)} :
           /\ views' = r.views
           /\ itineraryItems' = r.coordinates
    /\ lastOp' = [NoOp EXCEPT !.op = "Render"]
    /\ UNCHANGED <<dayWarnings, uiVars, tempTime, seeded, nOps, failed,
                   parseVars, validateVars, updateVars, expenseVars, mapVars,
                   planVars, laterRuns>>

ViewsNext ==
    \/ SeedViews
    \/ Render
    \/ Insert
    \/ Delete
    \/ Move
    \/ Retime
    \/ ReplaceContent

SpecViews == Init /\ [][ViewsNext]_vars

(***************************************************************************)
(* Vocabulary of the properties                                            *)
(***************************************************************************)
Count(s, e) == Cardinality({k \in 1..Len(s) : s[k] = e})
Range(s) == {s[k] : k \in 1..Len(s)}
IsPermutation(a, b) ==
    /\ Len(a) = Len(b)
    /\ \A e \in Range(a) \cup Range(b) : Count(a, e) = Count(b, e)

\* the warning list shown for a day: dayWarnings[day], nothing without a key
WarningsOf(w, day) == IF day \in DOMAIN w THEN w[day] ELSE <<>>

KthSmallest(S, k) == CHOOSE x \in S : Cardinality({y \in S : y < x}) = k - 1

AllFullWidthToAscii(s) == [k \in 1..Len(s) |-> IF s[k] = "FW" THEN ":" ELSE s[k]]

\* an HH:MM token of n characters starts at p: one or two digits, a colon, two digits
TokenAt(s, p, n) ==
    /\ n \in {4, 5} /\ p >= 1 /\ p + n - 1 <= Len(s)
    /\ s[p + n - 3] = ":"
    /\ \A k \in p..(p + n - 1) : k # p + n - 3 => IsDigit(s[k])

TokenMinutes(s, p, n) ==
    LET hours == IF n = 5 THEN 10 * DigitVal[s[p]] + DigitVal[s[p + 1]]
                 ELSE DigitVal[s[p]]
    IN 60 * hours + 10 * DigitVal[s[p + n - 2]] + DigitVal[s[p + n - 1]]

\* the tokens of s read left to right from position from on, in minutes
RECURSIVE TokensFrom(_, _)
TokensFrom(s, from) ==
    LET starts == {p \in from..Len(s) : \E n \in {4, 5} : TokenAt(s, p, n)}
    IN IF starts = {} THEN <<>>
       ELSE LET p == CHOOSE q \in starts : \A r \in starts : q <= r
                n == CHOOSE m \in {4, 5} : TokenAt(s, p, m)
            IN <<TokenMinutes(s, p, n)>> \o TokensFrom(s, p + n)

(***************************************************************************)
(* C9: parse returns Unparseable when the text has no HH:MM token, start = *)
(* the token and end = start + 60 with exactly one token, and start = the  *)
(* first token, end = the second token with two or more tokens (a token    *)
(* may be written with the full-width colon).                              *)
(***************************************************************************)
C9_ParseByTokenCount ==
    LET tokens == TokensFrom(AllFullWidthToAscii(Flatten(pText)), 1)
    IN /\ Len(tokens) = 0 => pResult = null
       /\ Len(tokens) = 1 =>
              pResult = [start |-> tokens[1], end |-> tokens[1] + 60]
       /\ Len(tokens) >= 2 =>
              pResult = [start |-> tokens[1], end |-> tokens[2]]

(***************************************************************************)
(* C10: writing any or all colons of a time text as full-width colons does *)
(* not change the parse result.                                            *)
(***************************************************************************)
C10_FullWidthColonAsAscii ==
    pResult = parseTimeMinutes(AllFullWidthToAscii(Flatten(pText)))

(***************************************************************************)
(* C7: validate returns the timed entries stably sorted by start minute    *)
(* (equal starts keep their input order) followed by the untimed entries   *)
(* in input order, and validating that output again returns the same order *)
(* and the same warnings.                                                  *)
(***************************************************************************)
\* position of the entry in the validator's input (ids are the input positions)
InputPos(e) == CHOOSE k \in 1..Len(vItems) : vItems[k].id = e.id

StableOrder(out) ==
    \A i, j \in 1..Len(out) : i < j =>
        LET ti == parseTimeMinutes(out[i].time)
            tj == parseTimeMinutes(out[j].time)
        IN /\ ti = null => tj = null /\ InputPos(out[i]) < InputPos(out[j])
           /\ (ti # null /\ tj # null) =>
                  \/ ti.start < tj.start
                  \/ ti.start = tj.start /\ InputPos(out[i]) < InputPos(out[j])

C7_ValidateStableIdempotent ==
    /\ vPhase \in {"once", "twice"} =>
           /\ IsPermutation(vOut.sortedItems, vItems)
           /\ StableOrder(vOut.sortedItems)
    /\ vPhase = "twice" => vOut2 = vOut

\* an untimed entry ahead of two timed entries with equal start, validated twice
C7_Witness ==
    /\ vPhase = "twice"
    /\ Len(vItems) = 3
    /\ vItems[1].time = Placeholder
    /\ vItems[2].time = T0900_1000 /\ vItems[3].time = T0900
    /\ vOut.sortedItems = <<vItems[2], vItems[3], vItems[1]>>

(***************************************************************************)
(* C8: validate emits exactly one warning for each adjacent pair (current, *)
(* next) of the start-sorted timed entries with current.end > next.start,  *)
(* in sorted order, and no other: A(09:00-10:00), B(09:30-11:00) gives one *)
(* warning naming A and B; A(09:00-10:00), B(10:00-11:00) gives none.      *)
(***************************************************************************)
C8_WarningPerAdjacentOverlap ==
    vPhase \in {"once", "twice"} =>
        LET timed == SelectSeq(vOut.sortedItems,
                               LAMBDA e : parseTimeMinutes(e.time) # null)
            hits == {i \in 1..(Len(timed) - 1) :
                        parseTimeMinutes(timed[i].time).end
                            > parseTimeMinutes(timed[i + 1].time).start}
            A == Entry(1, "Day 1", T0900_1000, "A", "spot")
        IN /\ Len(vOut.warnings) = Cardinality(hits)
           /\ \A k \in 1..Len(vOut.warnings) :
                  LET i == KthSmallest(hits, k)
                  IN vOut.warnings[k] =
                         [a |-> timed[i].name, at |-> timed[i].time,
                          b |-> timed[i + 1].name, bt |-> timed[i + 1].time]
           /\ vItems = <<A, Entry(2, "Day 1", T0930_1100, "B", "spot")>> =>
                  vOut.warnings = << [a |-> "A", at |-> T0900_1000,
                                      b |-> "B", bt |-> T0930_1100] >>
           /\ vItems = <<A, Entry(2, "Day 1", T1000_1100, "B", "spot")>> =>
                  vOut.warnings = <<>>

\* three timed entries given out of order: after sorting the first pair only
\* touches (10:00 = 10:00) and the second pair overlaps
C8_Witness ==
    /\ vPhase = "once"
    /\ Len(vItems) = 3
    /\ vItems[1].time = T1000_1100
    /\ vItems[2].time = T0900_1000
    /\ vItems[3].time = T1000_1100
    /\ vOut.warnings = << [a |-> "A", at |-> T1000_1100,
                          b |-> "C", bt |-> T1000_1100] >>

(***************************************************************************)
(* C2: a re-validation pass returns a permutation of the collection it was *)
(* given: no entry removed, duplicated or altered.                         *)
(***************************************************************************)
C2_RevalidationIsPermutation == uPhase = "done" => IsPermutation(uOut, uItems)

\* a pass over two days that reorders a collection holding an entry without day
C2_Witness ==
    /\ uPhase = "done"
    /\ Len(uItems) = 3 /\ Len(uDays) = 2
    /\ \E k \in 1..3 : uItems[k].day = NoDay
    /\ uOut # uItems

(***************************************************************************)
(* C1: after Seed and after any sequence of operations, every day's        *)
(* entries appear with the entries whose time parses first, in             *)
(* non-decreasing order of start minute, then the entries whose time does  *)
(* not parse.                                                              *)
(***************************************************************************)
C1_DaysPresentedSorted ==
    seeded =>
        \A d \in DOMAIN daysMap(itineraryItems) :
            LET s == daysMap(itineraryItems)[d]
            IN \A i, j \in 1..Len(s) : i < j =>
                   LET ti == parseTimeMinutes(s[i].time)
                       tj == parseTimeMinutes(s[j].time)
                   IN tj # null => ti # null /\ ti.start <= tj.start

\* a Retime has just acted on a day that now shows two timed entries in start
\* order and an untimed entry behind them
C1_Witness ==
    /\ lastOp.op = "Retime"
    /\ \E d \in DOMAIN daysMap(itineraryItems) :
           LET s == daysMap(itineraryItems)[d]
           IN /\ Len(s) = 3
              /\ parseTimeMinutes(s[1].time) # null
              /\ parseTimeMinutes(s[2].time) # null
              /\ parseTimeMinutes(s[1].time).start < parseTimeMinutes(s[2].time).start
              /\ parseTimeMinutes(s[3].time) = null
              /\ s[2].id = lastOp.id

(***************************************************************************)
(* C3: an Insert, Delete, Move or Retime leaves every day other than the   *)
(* touched entry's original and destination day with the same entries in   *)
(* the same order and the same warning list or absence of one.             *)
(***************************************************************************)
C3_OtherDaysUntouched ==
    [][ (lastOp'.op \in {"Insert", "Delete", "Move", "Retime"} /\ nOps' = nOps + 1) =>
            \A d \in Days \ {lastOp'.from, lastOp'.to} :
                /\ ItemsOfDay(itineraryItems', d) = ItemsOfDay(itineraryItems, d)
                /\ (d \in DOMAIN dayWarnings') = (d \in DOMAIN dayWarnings)
                /\ WarningsOf(dayWarnings', d) = WarningsOf(dayWarnings, d) ]_vars

\* a Move from Day 1 to Day 2 has acted while Day 3 holds two entries and a warning
C3_Witness ==
    /\ lastOp.op = "Move" /\ lastOp.from = "Day 1" /\ lastOp.to = "Day 2"
    /\ Len(ItemsOfDay(itineraryItems, "Day 3")) = 2
    /\ "Day 3" \in DOMAIN dayWarnings

(***************************************************************************)
(* C4: after a Move from day S to a different day D the moved entry's day  *)
(* is D, it is grouped under D and not under S, and the warning lists of   *)
(* both S and D are those validate yields for their new contents.          *)
(***************************************************************************)
C4_MoveRevalidatesBothDays ==
    (lastOp.op = "Move" /\ lastOp.from # lastOp.to) =>
        LET S == lastOp.from
            D == lastOp.to
        IN /\ \E k \in 1..Len(itineraryItems) :
                  /\ itineraryItems[k].id = lastOp.id
                  /\ itineraryItems[k].day = D
           /\ D \in DOMAIN daysMap(itineraryItems)
           /\ \E k \in 1..Len(daysMap(itineraryItems)[D]) :
                  daysMap(itineraryItems)[D][k].id = lastOp.id
           /\ \A k \in 1..Len(ItemsOfDay(itineraryItems, S)) :
                  ItemsOfDay(itineraryItems, S)[k].id # lastOp.id
           /\ WarningsOf(dayWarnings, S)
                  = processDaySchedule(ItemsOfDay(itineraryItems, S)).warnings
           /\ WarningsOf(dayWarnings, D)
                  = processDaySchedule(ItemsOfDay(itineraryItems, D)).warnings

\* A, which overlapped B in Day 1, was moved to Day 2 next to C: Day 1 keeps B
\* and reports nothing, Day 2 reports the conflict of A with C
C4_Witness ==
    /\ lastOp = [op |-> "Move", from |-> "Day 1", to |-> "Day 2", id |-> 1,
                raw |-> <<>>]
    /\ nOps = 1
    /\ \E k \in 1..Len(itineraryItems) :
           itineraryItems[k].id = 2 /\ DayOf(itineraryItems[k]) = "Day 1"
    /\ "Day 1" \notin DOMAIN dayWarnings
    /\ WarningsOf(dayWarnings, "Day 2")
           = << [a |-> "A", at |-> T0900_1000, b |-> "C", bt |-> T0930_1100] >>

(***************************************************************************)
(* C5: after any sequence of store operations, every day's stored warning  *)
(* list equals the list validate produces from the day's current entries,  *)
(* names and time texts included.                                          *)
(***************************************************************************)
C5_WarningsMatchCurrentEntries ==
    /\ DOMAIN dayWarnings \subseteq Days
    /\ \A d \in Days :
           WarningsOf(dayWarnings, d)
               = processDaySchedule(ItemsOfDay(itineraryItems, d)).warnings

(***************************************************************************)
(* C6: the DayWarningSet has a key for a day only if the day's warning     *)
(* list is non-empty, also after an operation removed the day's last       *)
(* conflict or its last entry.                                             *)
(***************************************************************************)
C6_NoKeyForCleanDay == \A d \in DOMAIN dayWarnings : Len(dayWarnings[d]) > 0

\* the seed held A and B in conflict in Day 1; deleting A left B alone and no key
C6_Witness ==
    /\ lastOp = [op |-> "Delete", from |-> "Day 1", to |-> "Day 1", id |-> 1,
                raw |-> <<>>]
    /\ nOps = 1
    /\ \E k \in 1..Len(itineraryItems) : itineraryItems[k].id = 2
    /\ "Day 1" \notin DOMAIN dayWarnings

(***************************************************************************)
(* C11: Seed replaces the whole collection with exactly the raw entries of *)
(* the planning result (same multiset), each day validated on its own, and *)
(* the DayWarningSet has exactly the days with conflicts; a day seeded     *)
(* with entries at 14:00, 09:00, 11:00 shows 09:00, 11:00, 14:00 and has   *)
(* no warning.                                                             *)
(***************************************************************************)
TimesOf(s) == [k \in 1..Len(s) |-> s[k].time]

C11_SeedReplacesAndValidates ==
    lastOp.op = "Seed" =>
        LET raw == lastOp.raw
        IN /\ IsPermutation(itineraryItems, raw)
           /\ \A d \in Days :
                  LET r == processDaySchedule(ItemsOfDay(raw, d))
                  IN /\ ItemsOfDay(itineraryItems, d) = r.sortedItems
                     /\ d \in DOMAIN dayWarnings <=> r.warnings # <<>>
                     /\ WarningsOf(dayWarnings, d) = r.warnings
           /\ \A d \in Days :
                  TimesOf(ItemsOfDay(raw, d)) = <<T1400, T0900, T1100>> =>
                      /\ TimesOf(ItemsOfDay(itineraryItems, d))
                             = <<T0900, T1100, T1400>>
                      /\ d \notin DOMAIN dayWarnings

\* the planning result was one day with entries at 14:00, 09:00, 11:00
C11_Witness ==
    /\ lastOp.op = "Seed"
    /\ TimesOf(lastOp.raw) = <<T1400, T0900, T1100>>
    /\ \A k \in 1..3 : lastOp.raw[k].day = "Day 2"
    /\ TimesOf(itineraryItems) = <<T0900, T1100, T1400>>
    /\ dayWarnings = EmptyWarnings

(***************************************************************************)
(* C12: a Retime with a non-empty new time text replaces only the time     *)
(* field of the referenced entry, keeps its day, and re-sorts and re-warns *)
(* that day; retiming an entry from 09:00 to 11:30 in a day that holds an  *)
(* 11:00-12:00 entry puts it after that entry and adds exactly one warning *)
(* for the day.                                                            *)
(***************************************************************************)
C12_RetimeReplacesTimeAndRevalidates ==
    [][ (lastOp'.op = "SaveTime" /\ lastOp'.id # 0 /\ nOps' = nOps + 1) =>
            LET i == editingTimeIndex
                e == itineraryItems[i]
                day == DayOf(e)
                after == ItemsOfDay(itineraryItems', day)
            IN /\ tempTime # <<>>
               /\ IsPermutation(itineraryItems',
                      [itineraryItems EXCEPT ![i] = [e EXCEPT !.time = tempTime]])
               /\ after = processDaySchedule(after).sortedItems
               /\ WarningsOf(dayWarnings', day) = processDaySchedule(after).warnings
               /\ (/\ e.time = T0900 /\ tempTime = T1130
                   /\ TimesOf(ItemsOfDay(itineraryItems, day)) = <<T0900, T1100_1200>>)
                  => /\ TimesOf(after) = <<T1100_1200, T1130>>
                     /\ after[2].id = e.id
                     /\ Len(WarningsOf(dayWarnings, day)) = 0
                     /\ Len(WarningsOf(dayWarnings', day)) = 1 ]_vars

\* A was retimed from 09:00 to 11:30 next to B (11:00-12:00): B, A and one warning
C12_Witness ==
    /\ lastOp = [op |-> "SaveTime", from |-> "Day 1", to |-> "Day 1", id |-> 1,
                raw |-> <<>>]
    /\ nOps = 1
    /\ TimesOf(ItemsOfDay(itineraryItems, "Day 1")) = <<T1100_1200, T1130>>
    /\ ItemsOfDay(itineraryItems, "Day 1")[2].id = 1
    /\ WarningsOf(dayWarnings, "Day 1")
           = << [a |-> "B", at |-> T1100_1200, b |-> "A", bt |-> T1130] >>

(***************************************************************************)
(* C13: ReplaceContent on an entry changes only that entry's name,         *)
(* description, cost and rating: its time and day, every other entry, the  *)
(* order of the whole collection and the DayWarningSet stay as they were   *)
(* (no re-validation runs).                                                *)
(***************************************************************************)
C13_ReplaceContentTouchesDisplayOnly ==
    [][ (lastOp'.op = "ReplaceContent" /\ nOps' = nOps + 1) =>
            /\ dayWarnings' = dayWarnings
            /\ Len(itineraryItems') = Len(itineraryItems)
            /\ \A k \in 1..Len(itineraryItems) :
                   LET old == itineraryItems[k]
                       new == itineraryItems'[k]
                   IN IF old.id = lastOp'.id
                      THEN /\ new.id = old.id /\ new.time = old.time
                           /\ new.day = old.day /\ new.type = old.type
                      ELSE new = old ]_vars

\* A, first of a Day 1 in conflict and followed by a Day 2 entry, got new content
C13_Witness ==
    /\ lastOp.op = "ReplaceContent" /\ lastOp.id = 1
    /\ Len(itineraryItems) >= 3
    /\ itineraryItems[1].id = 1 /\ itineraryItems[1].name = "R"
    /\ itineraryItems[1].cost = "80"
    /\ DayOf(itineraryItems[Len(itineraryItems)]) # "Day 1"
    /\ "Day 1" \in DOMAIN dayWarnings

(***************************************************************************)
(* C14: for every entry collection and every total budget, aggregate gives *)
(* reserve = max(0, totalBudget - (lodging + food + activity + transport)) *)
(* and reserve is never negative; an unparseable total budget counts as 0  *)
(* and gives reserve = 0.                                                  *)
(***************************************************************************)
\* the budget a budget text states: its first run of digits, commas dropped
RECURSIVE StatedBudget(_, _)
StatedBudget(text, sofar) ==
    IF text = <<>> THEN sofar
    ELSE IF Head(text) = "," /\ sofar >= 0 THEN StatedBudget(Tail(text), sofar)
    ELSE IF IsDigit(Head(text))
         THEN StatedBudget(Tail(text),
                  (IF sofar < 0 THEN 0 ELSE 10 * sofar) + DigitVal[Head(text)])
    ELSE IF sofar >= 0 THEN sofar
    ELSE StatedBudget(Tail(text), sofar)

Parseable(text) == \E k \in 1..Len(text) : IsDigit(text[k])

C14_ReserveIsFlooredDifference ==
    eOut # NoBreakdown =>
        LET budget == IF Parseable(eBudgetEst) THEN StatedBudget(eBudgetEst, -1) ELSE 0
            sum == eOut.hotel + eOut.food + eOut.spot + eOut.transport
        IN /\ eOut.reserve = (IF budget - sum > 0 THEN budget - sum ELSE 0)
           /\ eOut.reserve >= 0
           /\ ~Parseable(eBudgetEst) => eOut.reserve = 0

\* two entries of 800 each against a budget of 100: the spend exceeds the budget
C14_Witness ==
    /\ eOut # NoBreakdown
    /\ eBudgetEst = <<"1", "0", "0">>
    /\ eOut.hotel + eOut.food + eOut.spot + eOut.transport = 1600
    /\ eOut.reserve = 0

(***************************************************************************)
(* C15: in aggregate, every entry with a numeric cost whose name contains  *)
(* a transit keyword is counted in the transport total and listed as a     *)
(* transport line item whatever its declared category (lodging and food    *)
(* included); every other costed entry is counted under its declared       *)
(* category, anything that is not lodging or food counted as activity.     *)
(***************************************************************************)
\* the entries that produce a line item: a cost text with a number and without
\* the free / undetermined vocabulary
Costed(item) ==
    /\ Parseable(item.cost)
    /\ ~Includes(item.cost, Free) /\ ~Includes(item.cost, Undetermined)

Amount(item) == StatedBudget(item.cost, -1)

\* the category the claim assigns
ClaimedCategory(item) ==
    IF \E kw \in TransitKeywords : Includes(item.name, kw) THEN "transport"
    ELSE IF item.type \in {"hotel", "food"} THEN item.type
    ELSE "spot"

RECURSIVE SumSeq(_)
SumSeq(s) == IF s = <<>> THEN 0 ELSE Head(s) + SumSeq(Tail(s))

ClaimedTotal(coordinates, category) ==
    SumSeq([k \in 1..Len(coordinates) |->
                IF Costed(coordinates[k]) /\ ClaimedCategory(coordinates[k]) = category
                THEN Amount(coordinates[k]) ELSE 0])

C15_TransitKeywordOverridesCategory ==
    eOut # NoBreakdown =>
        LET costed == SelectSeq(eCoordinates, Costed)
        IN /\ eOut.hotel = ClaimedTotal(eCoordinates, "hotel")
           /\ eOut.food = ClaimedTotal(eCoordinates, "food")
           /\ eOut.spot = ClaimedTotal(eCoordinates, "spot")
           /\ eOut.transport = ClaimedTotal(eCoordinates, "transport")
           /\ Len(eOut.items) = Len(costed)
           /\ \A k \in 1..Len(costed) :
                  eOut.items[k].type = ClaimedCategory(costed[k])

(***************************************************************************)
(* C16: in aggregate, an entry whose cost text is absent or contains the   *)
(* free or undetermined vocabulary adds nothing to any category total and  *)
(* produces no line item; with budget 5000, one lodging entry costing 800  *)
(* and one free food entry, the result is lodging 800, food 0, reserve     *)
(* 4200.                                                                   *)
(***************************************************************************)
Uncosted(item) ==
    \/ item.cost = NoText
    \/ Includes(item.cost, Free)
    \/ Includes(item.cost, Undetermined)

C16_UncostedEntriesAddNothing ==
    eOut # NoBreakdown =>
        LET rest == SelectSeq(eCoordinates, LAMBDA i : ~Uncosted(i))
            restOut == expenseBreakdown(rest, totalBudget(eBudgetEst))
        IN /\ eOut = restOut
           /\ Len(eOut.items) <= Len(rest)
           /\ (\A k \in 1..Len(eCoordinates) : Uncosted(eCoordinates[k])) =>
                  /\ eOut.hotel = 0 /\ eOut.food = 0 /\ eOut.spot = 0
                  /\ eOut.transport = 0 /\ eOut.items = <<>>
           /\ (/\ eBudgetEst = <<"5", "0", "0", "0">>
               /\ eCoordinates = << [name |-> <<"A">>, cost |-> <<"Y", "8", "0", "0">>,
                                     type |-> "hotel", day |-> "Day 1"],
                                    [name |-> <<"A">>, cost |-> Free,
                                     type |-> "food", day |-> "Day 1"] >>)
              => /\ eOut.hotel = 800 /\ eOut.food = 0 /\ eOut.reserve = 4200
                 /\ Len(eOut.items) = 1

\* budget 5000, a lodging entry of 800 and a free food entry were aggregated
C16_Witness ==
    /\ eOut # NoBreakdown
    /\ eBudgetEst = <<"5", "0", "0", "0">>
    /\ Len(eCoordinates) = 2
    /\ eCoordinates[1].type = "hotel" /\ eCoordinates[1].cost = <<"Y", "8", "0", "0">>
    /\ eCoordinates[2].type = "food" /\ eCoordinates[2].cost = Free
    /\ eOut.hotel = 800 /\ eOut.food = 0 /\ eOut.reserve = 4200

(***************************************************************************)
(* C17: project keeps an entry as a map point if and only if it has both a *)
(* latitude and a longitude, both are numeric (numeric text is converted)  *)
(* and the coordinate is not exactly (0,0); an entry with exactly one zero *)
(* component is kept.                                                      *)
(***************************************************************************)
\* the number a coordinate component stands for; NaN when it stands for none
NumericValue(v) ==
    IF v.kind = "number" THEN v
    ELSE IF v.kind = "string" /\ v.text # <<>> /\ \A k \in 1..Len(v.text) : IsDigit(v.text[k])
    THEN Num(StatedBudget(v.text, -1))
    ELSE NaN

ShouldBeMapPoint(c) ==
    /\ NumericValue(c.lat) # NaN
    /\ NumericValue(c.lng) # NaN
    /\ ~(NumericValue(c.lat) = Num(0) /\ NumericValue(c.lng) = Num(0))

C17_ProjectKeepsValidCoordinates ==
    mOut # NoProjection =>
        LET expected == SelectSeq(mCoordinates, ShouldBeMapPoint)
        IN /\ Len(mOut) = Len(expected)
           /\ \A k \in 1..Len(expected) :
                  /\ mOut[k].id = expected[k].id
                  /\ mOut[k].lat = NumericValue(expected[k].lat)
                  /\ mOut[k].lng = NumericValue(expected[k].lng)

(***************************************************************************)
(* C18: computing the derived views (expense breakdown, day grouping, top  *)
(* spots, map projection, the map sidebar's per-day sorted lists) never    *)
(* changes the store: the entry collection, the order of its entries and   *)
(* the DayWarningSet are the same before and after a recomputation.        *)
(***************************************************************************)
C18_ViewsLeaveStoreUnchanged ==
    [][ lastOp'.op = "Render" =>
            /\ itineraryItems' = itineraryItems
            /\ dayWarnings' = dayWarnings ]_vars

\* a render sorted views whose order differs from the store's: the top spots
\* list B (4.8) before A, the store holds A before B
C18_Witness ==
    /\ lastOp.op = "Render"
    /\ Len(itineraryItems) >= 2
    /\ itineraryItems[1].id = 1 /\ itineraryItems[2].id = 2
    /\ Len(views.topSpots) = 2
    /\ views.topSpots[1].id = 2 /\ views.topSpots[2].id = 1
    /\ Len(views.sidebar) = 2
    /\ Len(views.validCoords) = 1
    /\ Len(views.expenseBreakdown.items) = 2

(***************************************************************************)
(* C19: in every interleaving of StartEditTime(index), Delete, Move,       *)
(* Insert and SaveTime, saving a pending time edit never fails: SaveTime   *)
(* never dereferences an index outside the current collection, also when   *)
(* entries were deleted or moved while the edit was pending.               *)
(***************************************************************************)
C19_SaveTimeNeverFails == ~failed

\* the second operation was a save that gave B the text 09:00, which only the
\* edit started on A carries: the first operation changed the collection while
\* that edit was pending, and the save went through
C19_Witness ==
    /\ lastOp.op = "SaveTime" /\ lastOp.id = 2
    /\ nOps = 2
    /\ tempTime = T0900
    /\ \E k \in 1..Len(itineraryItems) :
           itineraryItems[k].id = 2 /\ itineraryItems[k].time = T0900
    /\ ~failed


(***************************************************************************)
(* C20: the planning endpoint answers an invalid request - a required      *)
(* field missing, a field longer than its limit, a budget outside          *)
(* 0..10,000,000 or a number of days outside 1..365 - with status 400 and  *)
(* the code of a violation the request has, and the LLM service is not     *)
(* called for it.  The limiter's own refusal (429) precedes validation and *)
(* is not a request the endpoint examined.                                 *)
(***************************************************************************)
RECURSIVE Pow10(_)
Pow10(n) == IF n = 0 THEN 1 ELSE 10 * Pow10(n - 1)

\* the number a text states: digits, with an optional sign and an optional
\* exponent; NaN for a text that states none
StatedNumber(t) ==
    LET neg == t # <<>> /\ Head(t) = "-"
        body == IF neg THEN Tail(t) ELSE t
        mant == DigitPrefix(body)
        rest == SubSeq(body, Len(mant) + 1, Len(body))
        sign == IF neg THEN -1 ELSE 1
    IN IF mant = <<>> THEN NaN
       ELSE IF rest = <<>> THEN Num(sign * Number(mant))
       ELSE IF Head(rest) = "e" /\ Tail(rest) # <<>>
               /\ DigitPrefix(Tail(rest)) = Tail(rest)
       THEN Num(sign * Number(mant) * Pow10(Number(Tail(rest))))
       ELSE NaN

Required == {"destination", "startDate", "travelers", "budget", "days"}
Limited == {"destination", "travelers", "budget", "days", "personality"}
Absent(v) == v = undefined \/ v.text = <<>>
OutOfRange(v, lo, hi) ==
    /\ ~Absent(v)
    /\ LET n == StatedNumber(v.text)
       IN n = NaN \/ n.val < lo \/ n.val > hi

ViolationsOf(body) ==
    {"MISSING_FIELDS" : f \in {g \in Required : Absent(body[g])}}
    \cup {"FIELD_TOO_LONG" :
             f \in {g \in Limited : ~Absent(body[g])
                                    /\ Len(body[g].text) > limits[g]}}
    \cup (IF OutOfRange(body.budget, 0, BudgetMax) THEN {"INVALID_BUDGET"} ELSE {})
    \cup (IF OutOfRange(body.days, 1, DaysMax) THEN {"INVALID_DAYS"} ELSE {})

Examined == rRes # NoResponse /\ rRes # Reply(429, "RATE_LIMIT")

C20_InvalidRequestIs400WithoutLlm ==
    (Examined /\ ViolationsOf(rBody) # {}) =>
        /\ rRes.status = 400
        /\ rRes.code \in ViolationsOf(rBody)
        /\ ~rLlm

\* the same, for requests whose budget and days are written without an exponent
PlainNumber(v) == Absent(v) \/ \A k \in 1..Len(v.text) : v.text[k] # "e"
C20_HoldsForPlainNumbers ==
    (Examined /\ ViolationsOf(rBody) # {}
     /\ PlainNumber(rBody.budget) /\ PlainNumber(rBody.days)) =>
        /\ rRes.status = 400
        /\ rRes.code \in ViolationsOf(rBody)
        /\ ~rLlm

\* a request the endpoint refused for its number of days
C20_Refused ==
    /\ Examined /\ rRes.status = 400 /\ ~rLlm
    /\ rRes.code = "INVALID_DAYS"


(***************************************************************************)
(* C21: after a failed planning request, the retry action of the error     *)
(* panel returns the application to the input form, and the form holds the *)
(* field values the user had submitted, not the form's defaults.           *)
(***************************************************************************)
C21_RetryKeepsSubmittedValues ==
    [][ (aView = "ERROR" /\ aView' = "IDLE") => aForm' = aSubmitted ]_vars

\* the part of it the program keeps: the retry action shows the input form again
C21_RetryShowsForm ==
    [][ (aView = "ERROR" /\ aView' = "IDLE") => aForm' # NoForm /\ aError' = "" ]_vars

\* back on the form after a failure of a request that was not the defaults
C21_Retried ==
    /\ aView = "IDLE" /\ aSubmitted # NoForm /\ aSubmitted # DefaultForm
    /\ aForm = DefaultForm /\ ~aResult


(***************************************************************************)
(* C22: extracting the structured payload never fails the request.  When   *)
(* none of the strategies - the fenced code block, the code block cut      *)
(* before its closing fence, the scan from the route_coordinates key -     *)
(* yields text that parses as JSON, the result is the whole narrative text *)
(* unchanged with no metadata, and the store then holds zero entries.      *)
(***************************************************************************)
\* the candidate texts, read off the response as the three strategies describe
\* them: from an opening brace after a fence to a closing brace, and from an
\* opening brace to a closing brace with the key somewhere in the text
FencedCandidates(text) ==
    { SubSeq(text, a, b) :
        a \in {q \in 1..Len(text) : \E p \in 1..Len(text) : FenceBraceAt(text, p) = q},
        b \in {e \in 1..Len(text) : text[e] = "}"} }

ScanCandidates(text) ==
    IF \A k \in 1..Len(text) : text[k] # "R" THEN {}
    ELSE { SubSeq(text, a, b) :
             a \in {q \in 1..Len(text) : text[q] = "{"},
             b \in {e \in 1..Len(text) : text[e] = "}"} }

\* a text that is JSON once trailing commas are dropped
ParsesAsJson(t) ==
    LET u == SelectSeq(t, LAMBDA c : c # " ")
        members == SubSeq(u, 2, Len(u) - 1)
        body == IF members # <<>> /\ members[Len(members)] = ","
                THEN SubSeq(members, 1, Len(members) - 1) ELSE members
    IN /\ Len(u) >= 2 /\ u[1] = "{" /\ u[Len(u)] = "}"
       /\ \A k \in 1..Len(body) : body[k] = (IF k % 2 = 1 THEN "R" ELSE ",")
       /\ (body = <<>> => members = body \/ members = <<",">>)
       /\ (body # <<>> => Len(body) % 2 = 1)

NothingExtractable(text) ==
    \A t \in FencedCandidates(text) \cup ScanCandidates(text) : ~ParsesAsJson(t)

C22_UnparseablePayloadKeepsText ==
    /\ (xPhase # "input" /\ NothingExtractable(xText)) =>
           /\ xResult.rawText = xText
           /\ xResult.metadata = undefined
    /\ (xPhase = "seeded" /\ NothingExtractable(xText)) =>
           /\ itineraryItems = <<>>
           /\ ~failed

\* a response whose fenced block holds the key and does not parse was mounted
C22_Witness ==
    /\ xPhase = "seeded"
    /\ xText = <<"x", "F", "{", "R", "x">> \/ xText = <<"F", "{", "R", "R", "}">>
    /\ xResult.rawText = xText
    /\ itineraryItems = <<>>

\* a response whose payload parses seeds the store and loses its block
C22_Extracted ==
    /\ xPhase = "seeded"
    /\ xText = <<"x", "F", "{", "R", "}">>
    /\ xResult.rawText = <<"x">>
    /\ Len(itineraryItems) = 1


(***************************************************************************)
(* C23: a Move whose destination day is the entry's original day           *)
(* re-validates that day once, not twice; a Move between two different     *)
(* days re-validates each of the two days exactly once.                    *)
(***************************************************************************)
\* the number of validation passes the last Move ran over day d
PassesOfMove(d) == Count(DropAffectedDays(lastOp.from, lastOp.to), d)

C23_MoveRevalidatesEachDayOnce ==
    lastOp.op = "Move" => \A d \in {lastOp.from, lastOp.to} : PassesOfMove(d) = 1

\* the half of it that holds: a Move between two different days
C23_TwoDaysOnceEach ==
    (lastOp.op = "Move" /\ lastOp.from # lastOp.to) =>
        \A d \in {lastOp.from, lastOp.to} : PassesOfMove(d) = 1

\* a Move within one day ran
C23_MovedWithinDay == lastOp.op = "Move" /\ lastOp.from = lastOp.to


(***************************************************************************)
(* C24: Insert(entry, day) adds exactly one entry, tagged with the given   *)
(* day and carrying the placeholder (unparseable) time, and removes or     *)
(* alters no existing entry; the new entry ends up last within its day,    *)
(* after all timed and all previously untimed entries of that day, and the *)
(* day's warning list is the same as before the Insert.                    *)
(***************************************************************************)
WithoutId(s, id) == SelectSeq(s, LAMBDA e : e.id # id)

InsertAddsOneLast(before, after, day, id) ==
    LET group == ItemsOfDay(after, day)
    IN /\ Len(after) = Len(before) + 1
       /\ \A e \in Range(before) : e.id # id
       /\ IsPermutation(WithoutId(after, id), before)
       /\ group # <<>>
       /\ group[Len(group)].id = id
       /\ group[Len(group)].day = day
       /\ group[Len(group)].time = Placeholder
       /\ ~IsTimed(group[Len(group)])

C24_InsertAppendsToDay ==
    [][ (lastOp'.op = "Insert" /\ nOps' = nOps + 1) =>
            /\ InsertAddsOneLast(itineraryItems, itineraryItems', lastOp'.to,
                                 lastOp'.id)
            /\ WarningsOf(dayWarnings', lastOp'.to)
                   = WarningsOf(dayWarnings, lastOp'.to) ]_vars

\* the same without the warning list
C24_InsertAddsOneEntryLast ==
    [][ (lastOp'.op = "Insert" /\ nOps' = nOps + 1) =>
            InsertAddsOneLast(itineraryItems, itineraryItems', lastOp'.to,
                              lastOp'.id) ]_vars

\* the same, with the warning list, for an Insert into a day whose warnings were
\* those of its entries
C24_InsertKeepsFreshWarnings ==
    [][ (/\ lastOp'.op = "Insert" /\ nOps' = nOps + 1
         /\ WarningsOf(dayWarnings, lastOp'.to)
                = processDaySchedule(ItemsOfDay(itineraryItems, lastOp'.to)).warnings) =>
            WarningsOf(dayWarnings', lastOp'.to)
                = WarningsOf(dayWarnings, lastOp'.to) ]_vars

\* an Insert went into a day that holds a timed and an untimed entry and a warning
C24_Inserted ==
    /\ lastOp.op = "Insert"
    /\ Len(ItemsOfDay(itineraryItems, lastOp.to)) >= 3
    /\ WarningsOf(dayWarnings, lastOp.to) # <<>>


(***************************************************************************)
(* C25: Delete(index) removes exactly the entry at that index and no       *)
(* other, leaves the remaining entries of its day in their previous        *)
(* relative order, and recomputes that day's warnings: a warning that      *)
(* named the deleted entry is gone, and when the deleted entry was the     *)
(* day's last one the day has neither a group nor a warning key afterwards.*)
(***************************************************************************)
\* the entry Delete removed: the one entry of the collection with the id recorded
DeletedEntry(before, id) == CHOOSE e \in Range(before) : e.id = id

C25_DeleteRemovesOneAndRevalidates ==
    [][ (lastOp'.op = "Delete" /\ nOps' = nOps + 1) =>
            LET day == lastOp'.from
                gone == DeletedEntry(itineraryItems, lastOp'.id)
                rest == ItemsOfDay(itineraryItems', day)
            IN /\ Len(itineraryItems') = Len(itineraryItems) - 1
               /\ IsPermutation(itineraryItems', WithoutId(itineraryItems, gone.id))
               /\ rest = WithoutId(ItemsOfDay(itineraryItems, day), gone.id)
               /\ WarningsOf(dayWarnings', day)
                      = processDaySchedule(rest).warnings
               /\ \A k \in 1..Len(WarningsOf(dayWarnings', day)) :
                      LET w == WarningsOf(dayWarnings', day)[k]
                      IN \E i, j \in 1..Len(rest) :
                             i # j /\ w.a = rest[i].name /\ w.b = rest[j].name
               /\ (rest = <<>> =>
                      /\ day \notin DOMAIN dayWarnings'
                      /\ day \notin DOMAIN daysMap(itineraryItems')) ]_vars

\* a Delete removed an entry that a warning named, and another the last of its day
\* A, which overlapped B in "Day 1", was deleted: B stays and the warning is gone
C25_Witness ==
    /\ lastOp = [op |-> "Delete", from |-> "Day 1", to |-> "Day 1", id |-> 1,
                raw |-> <<>>]
    /\ nOps = 1
    /\ \E k \in 1..Len(itineraryItems) :
           itineraryItems[k].id = 2 /\ DayOf(itineraryItems[k]) = "Day 1"
    /\ "Day 1" \notin DOMAIN dayWarnings


(***************************************************************************)
(* C29: a pending time edit is applied to the entry on which it was        *)
(* started. While an edit is pending, no Insert, Delete or Move puts       *)
(* another entry under the pending edit, and the save changes the time of  *)
(* the entry under the pending edit and of no other entry.                 *)
(***************************************************************************)
Reorders == {"Insert", "Delete", "Move"}

\* the save stores the text in the entry under the pending edit, and only there
SaveChangesOnly(before, after, index, text) ==
    LET id == before[index].id
    IN \A e \in Range(before) :
           \E f \in Range(after) :
               /\ f.id = e.id
               /\ f.time = (IF e.id = id THEN text ELSE e.time)

\* the entry under the pending edit is the same one after the step
SameEntryEdited ==
    editingTimeIndex' \in 1..Len(itineraryItems') =>
        itineraryItems'[editingTimeIndex'].id
            = itineraryItems[editingTimeIndex].id

C29_SaveChangesIndexedEntryOnly ==
    [][ ( /\ lastOp'.op = "SaveTime" /\ nOps' = nOps + 1
          /\ lastOp'.id # NoOp.id )
            => SaveChangesOnly(itineraryItems, itineraryItems',
                               editingTimeIndex, tempTime) ]_vars

\* an Insert, Delete or Move that leaves the pending edit on its entry
C29_ReorderedWhilePending ==
    /\ lastOp.op \in Reorders
    /\ TimeInputRendered(itineraryItems, editingTimeIndex)
    /\ tempTime = T1130


(***************************************************************************)
(* handleDrop over its whole input: the handler receives the destination   *)
(* entry as an argument and looks it up in the collection; here the        *)
(* argument ranges over the entries of the collection and over entries     *)
(* that are not in it.                                                     *)
(***************************************************************************)
DropTargets(items) == Range(items) \cup Range(Pool)

Drop ==
    /\ CanOperate
    /\ \E index \in 1..Len(itineraryItems) : \E insertAfter \in BOOLEAN :
       \E targetItem \in DropTargets(itineraryItems) :
           /\ targetItem # itineraryItems[index]
           /\ LET targetDay == DayOf(targetItem)
                  r == handleDrop(itineraryItems, dayWarnings, index, targetItem,
                                  targetDay, insertAfter)
              IN /\ itineraryItems' = r.items
                 /\ dayWarnings' = r.warnings
                 /\ lastOp' = [op |-> "Drop", from |-> DayOf(itineraryItems[index]),
                               to |-> targetDay, id |-> itineraryItems[index].id,
                               raw |-> <<>>]
    /\ draggedItemIndex' = NoIndex
    /\ nOps' = nOps + 1
    /\ UNCHANGED <<editingTimeIndex, recTargetIndex, tempTime, seeded, failed, otherRuns>>

DropNext ==
    \/ Seed
    \/ Drop

SpecDrop == Init /\ [][DropNext]_vars

(***************************************************************************)
(* C30: Move never loses an entry. After any Move the collection holds     *)
(* exactly the entries it held before, the moved one with its day set to   *)
(* the destination day and all its other fields unchanged, whether or not  *)
(* the destination entry is found in the collection at the time of the     *)
(* drop.                                                                   *)
(***************************************************************************)
MoveKeepsEntries(before, after, id, day) ==
    /\ Len(after) = Len(before)
    /\ \A e \in Range(before) :
           (IF e.id = id THEN [e EXCEPT !.day = day] ELSE e) \in Range(after)

C30_MoveOntoCardKeepsEntries ==
    [][ (lastOp'.op = "Move" /\ nOps' = nOps + 1) =>
            MoveKeepsEntries(itineraryItems, itineraryItems',
                             lastOp'.id, lastOp'.to) ]_vars

\* an entry was moved from "Day 1" to "Day 2" and is in the collection
C30_Moved ==
    /\ lastOp.op = "Move" /\ lastOp.from = "Day 1" /\ lastOp.to = "Day 2"
    /\ \E k \in 1..Len(itineraryItems) :
           itineraryItems[k].id = lastOp.id /\ itineraryItems[k].day = "Day 2"


(***************************************************************************)
(* C27: validate returns an empty warning list if and only if no two       *)
(* timed entries of the day overlap, where entry i before entry j in       *)
(* start-sorted order overlaps it when end(i) > start(j). An overlap       *)
(* between entries that are not adjacent in sorted order comes with at     *)
(* least one warning.                                                      *)
(***************************************************************************)
\* p comes before q in start-sorted order (the sort is stable)
StartsBefore(items, p, q) ==
    \/ ParsedOf(items[p]).start < ParsedOf(items[q]).start
    \/ ParsedOf(items[p]).start = ParsedOf(items[q]).start /\ p < q

OverlapAt(items, p, q) ==
    /\ IsTimed(items[p]) /\ IsTimed(items[q])
    /\ StartsBefore(items, p, q)
    /\ ParsedOf(items[p]).end > ParsedOf(items[q]).start

SomeOverlap(items) == \E p, q \in 1..Len(items) : p # q /\ OverlapAt(items, p, q)

C27_NoWarningIffNoOverlap ==
    vPhase # "input" => ((vOut.warnings = <<>>) <=> ~SomeOverlap(vItems))

\* three timed entries, the first in sorted order overlapping the third: warned
C27_Witness ==
    /\ vPhase = "once"
    /\ Len(vItems) = 3
    /\ vItems[1].time = T1000_1100 /\ vItems[2].time = T0930_1100
    /\ vItems[3].time = T1000_1100
    /\ OverlapAt(vItems, 2, 3)
    /\ vOut.warnings # <<>>


(***************************************************************************)
(* C28: in every ExpenseBreakdown each category total (lodging, food,      *)
(* activity, transport) equals the sum of the amounts of the line items    *)
(* assigned to that category, and trackedTotal equals the sum of all       *)
(* line-item amounts: no line item is labelled with a category other than  *)
(* the one whose total it was added to.                                    *)
(***************************************************************************)
\* the section of the expense modal a line item is listed in
SectionOf(line) ==
    IF line.type \in {"hotel", "food", "transport"} THEN line.type ELSE "spot"

LineItemTotal(lines, category) ==
    SumSeq([k \in 1..Len(lines) |->
                IF SectionOf(lines[k]) = category THEN lines[k].cost ELSE 0])

C28_TotalsAreSumsOfTheirLineItems ==
    eOut # NoBreakdown =>
        /\ eOut.hotel = LineItemTotal(eOut.items, "hotel")
        /\ eOut.food = LineItemTotal(eOut.items, "food")
        /\ eOut.spot = LineItemTotal(eOut.items, "spot")
        /\ eOut.transport = LineItemTotal(eOut.items, "transport")
        /\ eOut.trackedTotal
               = SumSeq([k \in 1..Len(eOut.items) |-> eOut.items[k].cost])

\* what holds: trackedTotal is the sum of all line-item amounts
C28_TrackedTotalIsSumOfLineItems ==
    eOut # NoBreakdown =>
        eOut.trackedTotal = SumSeq([k \in 1..Len(eOut.items) |-> eOut.items[k].cost])

\* what holds: without a transit keyword on a lodging or food entry the
\* category totals are the sums of their line items
C28_HoldsWithoutKeywordOnLodgingOrFood ==
    (/\ eOut # NoBreakdown
     /\ \A k \in 1..Len(eCoordinates) :
            isTransport(eCoordinates[k].name)
                => eCoordinates[k].type \notin {"hotel", "food"})
        => /\ eOut.hotel = LineItemTotal(eOut.items, "hotel")
           /\ eOut.food = LineItemTotal(eOut.items, "food")
           /\ eOut.spot = LineItemTotal(eOut.items, "spot")
           /\ eOut.transport = LineItemTotal(eOut.items, "transport")

\* two priced entries of different categories were aggregated
C28_Aggregated ==
    /\ eOut # NoBreakdown
    /\ Len(eOut.items) = 2
    /\ eOut.hotel = 800 /\ eOut.transport = 800
    /\ eOut.trackedTotal = 1600


(***************************************************************************)
(* The markers of InteractiveMap. The collection is reduced to what the    *)
(* map reads of an entry: its identity and its lat and lng. The viewport   *)
(* is a box of whole degrees.                                              *)
(***************************************************************************)
MarkLats == { undefined, Num(0), Num(2), Num(6) }
MarkLngs == { undefined, Num(0), Num(2) }
MarkInputs(n) ==
    { [k \in 1..n |-> [id |-> k, lat |-> f[k].lat, lng |-> f[k].lng]] :
      f \in [1..n -> [lat : MarkLats, lng : MarkLngs]] }

\* views the user may pan or zoom to: around (2,2), around (6,2), and both
Viewports == { [south |-> 1, north |-> 3, west |-> 1, east |-> 3],
               [south |-> 5, north |-> 7, west |-> 1, east |-> 3],
               [south |-> 1, north |-> 7, west |-> 1, east |-> 3] }

\* coordinates.length > 0 && coordinates.some(c => c.lat !== undefined && ...)
hasCoordinates(coordinates) ==
    /\ Len(coordinates) > 0
    /\ \E k \in 1..Len(coordinates) :
           coordinates[k].lat # undefined /\ coordinates[k].lng # undefined

\* LatLngBounds.pad(0.5): half the extent more on every side
pad(b) ==
    LET h == (b.north - b.south) \div 2
        w == (b.east - b.west) \div 2
    IN [south |-> b.south - h, north |-> b.north + h,
        west |-> b.west - w, east |-> b.east + w]

contains(b, lat, lng) == lat \in b.south..b.north /\ lng \in b.west..b.east

\* the margin fitBounds leaves around the bounds of the valid coordinates
FitMargin == 1

\* map.fitBounds(L.latLngBounds(validCoords...), {padding, maxZoom})
fitBounds(valid) ==
    LET lats == { valid[k].lat.val : k \in 1..Len(valid) }
        lngs == { valid[k].lng.val : k \in 1..Len(valid) }
        lo(S) == CHOOSE x \in S : \A y \in S : x <= y
        hi(S) == CHOOSE x \in S : \A y \in S : x >= y
    IN [south |-> lo(lats) - FitMargin, north |-> hi(lats) + FitMargin,
        west |-> lo(lngs) - FitMargin, east |-> hi(lngs) + FitMargin]

\* clearLayers(), then one marker for every valid coordinate inside the padded
\* bounds
renderVisibleMarkers(view, valid, layers) ==
    { valid[k].id : k \in { j \in 1..Len(valid) :
          contains(pad(view), valid[j].lat.val, valid[j].lng.val) } }

\* the marker effect, run with a map instance: it fits and redraws only when
\* some coordinate is valid, and registers the redraw for moveend and zoomend
MarkerEffect(coordinates, view, layers) ==
    LET valid == validCoords(coordinates)
    IN IF Len(valid) > 0
       THEN LET fit == fitBounds(valid)
            IN [viewport |-> fit,
                markers |-> renderVisibleMarkers(fit, valid, layers),
                listener |-> valid]
       ELSE [viewport |-> view, markers |-> layers, listener |-> valid]

\* a render of ResultView with a new collection: InteractiveMap is rendered
\* under hasCoordinates; unmounting removes the map, mounting waits for the
\* container to come into view, and a mounted map runs the marker effect
Rerender(coordinates) ==
    /\ kCoordinates' = coordinates
    /\ IF ~hasCoordinates(coordinates)
       THEN /\ kMounted' = FALSE /\ kMap' = FALSE
            /\ kViewport' = NoViewport /\ kMarkers' = {}
            /\ kListener' = NoListener
       ELSE /\ kMounted' = TRUE
            /\ IF kMounted /\ kMap
               THEN LET r == MarkerEffect(coordinates, kViewport, kMarkers)
                    IN /\ kViewport' = r.viewport
                       /\ kMarkers' = r.markers
                       /\ kListener' = r.listener
                       /\ UNCHANGED kMap
               ELSE /\ kMap' = FALSE
                    /\ UNCHANGED <<kViewport, kMarkers, kListener>>

\* the seed effect of ResultView stores the planning result's coordinates
MarkSeed ==
    /\ ~seeded
    /\ \E n \in 1..MaxMark : \E raw \in MarkInputs(n) : Rerender(raw)
    /\ seeded' = TRUE
    /\ lastOp' = [NoOp EXCEPT !.op = "Seed"]
    /\ UNCHANGED nOps

MarkDelete ==
    /\ CanOperate
    /\ \E index \in 1..Len(kCoordinates) :
           /\ Rerender(RemoveAt(kCoordinates, index))
           /\ lastOp' = [NoOp EXCEPT !.op = "Delete", !.id = kCoordinates[index].id]
    /\ nOps' = nOps + 1
    /\ UNCHANGED seeded

\* handleAddLocation copies lat and lng of the chosen search result
MarkInsert ==
    /\ CanOperate
    /\ Len(kCoordinates) < MaxMark
    /\ \E lat \in MarkLats, lng \in MarkLngs :
           LET id == MaxMark + nOps + 1
           IN /\ Rerender(Append(kCoordinates, [id |-> id, lat |-> lat, lng |-> lng]))
              /\ lastOp' = [NoOp EXCEPT !.op = "Insert", !.id = id]
    /\ nOps' = nOps + 1
    /\ UNCHANGED seeded

\* the container comes into view: shouldLoadMap, the map is created and the
\* marker effect runs for the first time
Intersect ==
    /\ kMounted /\ ~kMap
    /\ kMap' = TRUE
    /\ LET r == MarkerEffect(kCoordinates, kViewport, kMarkers)
       IN /\ kViewport' = r.viewport
          /\ kMarkers' = r.markers
          /\ kListener' = r.listener
    /\ UNCHANGED <<kCoordinates, kMounted, seeded, nOps, lastOp>>

\* moveend or zoomend: the registered redraw runs with the coordinates it
\* captured
ViewportChange ==
    /\ kMap /\ kViewport # NoViewport /\ kListener # NoListener
    /\ \E view \in Viewports :
           /\ view # kViewport
           /\ kViewport' = view
           /\ kMarkers' = renderVisibleMarkers(view, kListener, kMarkers)
    /\ lastOp' = [NoOp EXCEPT !.op = "ViewportChange"]
    /\ UNCHANGED <<kCoordinates, kMounted, kMap, kListener, seeded, nOps>>

MarkRest ==
    UNCHANGED <<itineraryItems, dayWarnings, uiVars, tempTime, failed, parseVars,
                validateVars, updateVars, expenseVars, mapVars, views, planVars,
                appVars, extractVars>>

MarkNext ==
    \/ MarkSeed /\ MarkRest
    \/ MarkDelete /\ MarkRest
    \/ MarkInsert /\ MarkRest
    \/ Intersect /\ MarkRest
    \/ ViewportChange /\ MarkRest

SpecMark == Init /\ [][MarkNext]_vars

(***************************************************************************)
(* C26: after every change of the entry collection and after every         *)
(* viewport change, the markers rendered on the map are exactly the        *)
(* currently valid entries whose coordinate lies inside the padded         *)
(* viewport: no marker stays rendered for an entry that was deleted or is  *)
(* no longer valid, including when the change leaves no valid coordinate.  *)
(***************************************************************************)
\* the entries that should have a marker: valid, and inside the padded viewport
ExpectedMarkers(coordinates, view) ==
    { coordinates[k].id : k \in { j \in 1..Len(coordinates) :
          /\ ShouldBeMapPoint(coordinates[j])
          /\ contains(pad(view), NumericValue(coordinates[j].lat).val,
                      NumericValue(coordinates[j].lng).val) } }

C26_MarkersAreValidEntriesInView ==
    kMap => kMarkers = ExpectedMarkers(kCoordinates, kViewport)

\* the part about deleted entries alone: every marker belongs to a current entry
C26_NoMarkerOfDeletedEntry ==
    kMap => \A id \in kMarkers : \E k \in 1..Len(kCoordinates) : kCoordinates[k].id = id

\* what holds: while some entry passes the filter of the map, and the filter
\* agrees with the validity of the claim, the markers are exactly the valid
\* entries in view
C26_ExactWhileSomeEntryPasses ==
    (/\ kMap
     /\ validCoords(kCoordinates) # <<>>
     /\ \A k \in 1..Len(kCoordinates) :
            KeepCoord(kCoordinates[k]) <=> ShouldBeMapPoint(kCoordinates[k]))
        => kMarkers = ExpectedMarkers(kCoordinates, kViewport)

\* the view was moved away from a valid entry, which has no marker there
C26_MovedAway ==
    /\ kMap /\ lastOp.op = "ViewportChange"
    /\ kViewport = [south |-> 1, north |-> 3, west |-> 1, east |-> 3]
    /\ Len(validCoords(kCoordinates)) = 2
    /\ Cardinality(kMarkers) = 1

====
